---- MODULE Spec2Model ----
(***************************************************************************)
(* Model of the custom terminal rendering pipeline of watch-claude-think:  *)
(* the render-state engine (CustomRenderLogger), the terminal operation    *)
(* primitives (eraseLines, countTerminalLines), the MessageStore and the   *)
(* React hooks that drive the engine (useSessionServices,                  *)
(* useCustomRenderer).                                                     *)
(*                                                                         *)
(* A text is a sequence of one-character strings.  The escape character    *)
(* U+001B is written "ESC".                                                *)
(***************************************************************************)
EXTENDS Integers, Sequences, FiniteSets, TLC

VARIABLES
    options,        \* CustomRenderLogger.options
    state,          \* CustomRenderLogger.state
    ops,            \* the operation list returned by the last render call
    frame,          \* the frame passed to the last render call
    prevArg,        \* the frame processed before it (the initial frame at first)
    pre,            \* CustomRenderLogger.state before the last render call
    nCalls,         \* number of render calls made
    increments,     \* the staticOutput of every frame rendered, in order
    resized,        \* whether some rendered frame changed the dimensions
    term,           \* the terminal: rows of cells, cursor, pending wrap
    tpc,            \* position of the write/erase scenario on the terminal
    tin,            \* the scenario's status text, width and start row
    view,           \* the StreamView component: hooks' refs and React state
    lc,             \* a call of countTerminalLines: text, width, result
    exec,           \* a call of executeTerminalOperations: list, stream writes
    ms,             \* a MessageStore and its last addBlocks call
    shown,          \* what the engine's operations have put on the terminal
    sm,             \* a SessionManager, its watcher and its listeners
    fp,             \* the parser's file positions and the files they index
    sw,             \* a SessionWatcher, its queue and the handlers it started
    lru,            \* an LRUCache and the operations applied to it
    app,            \* the App component: stage, navigation stack, lists
    pw              \* a session file written in chunks and its parser

later == <<sw, lru, app, pw>>

vars == <<options, state, ops, frame, prevArg, pre, nCalls, increments,
          resized, term, tpc, tin, view, lc, exec, ms, shown, sm, fp,
          sw, lru, app, pw>>

\* ---------------------------------------------------------------- bounds
MaxFrames == 3
\* service generations (runs of the useSessionServices effect) per view
MaxGens == 2
\* blocks per addBlocks batch
MaxBatch == 2
\* pieces (a character, a newline, an escape sequence) per measured text
MaxPieces == 4
\* operations per list handed to executeTerminalOperations
MaxOps == 3
\* addBlocks calls on one MessageStore
MaxAdds == 3
\* subscribe and unsubscribe calls on one MessageStore
MaxSubs == 3
MaxCleanups == 2
MaxChanges == 1
MaxLines == 2
MaxParses == 2
MaxOthers == 100
\* events the directory watcher reports to one SessionWatcher
MaxEvents == 3
\* keys set one at a time, besides the run of sets that fills the cache
MaxExtra == 4
\* reads, rewrites and deletes of a key between the sets that fill the cache
MaxTouches == 2
\* project selections made in one run of the App
MaxSelects == 3
\* changes of the terminal's size while one view is open
MaxResizes == 2
\* parseNewLines calls on a session file while it is written
MaxReads == 3

\* ------------------------------------------------------------ text helpers
NL == "\n"
ESC == "ESC"

IsSpace(c) == c \in {" ", NL}

RECURSIVE TrimStart(_)
TrimStart(s) ==
    IF s = <<>> THEN <<>>
    ELSE IF IsSpace(Head(s)) THEN TrimStart(Tail(s)) ELSE s

RECURSIVE TrimEnd(_)
TrimEnd(s) ==
    IF s = <<>> THEN <<>>
    ELSE IF IsSpace(s[Len(s)]) THEN TrimEnd(SubSeq(s, 1, Len(s) - 1)) ELSE s

\* String.prototype.trim
Trim(s) == TrimEnd(TrimStart(s))

\* JavaScript truthiness of a string
Truthy(s) == s # <<>>

\* text.split('\n'): always at least one piece
RECURSIVE SplitNL(_)
SplitNL(s) ==
    IF \A i \in DOMAIN s : s[i] # NL THEN <<s>>
    ELSE LET k == CHOOSE i \in DOMAIN s :
                      s[i] = NL /\ \A j \in 1..(i - 1) : s[j] # NL
         IN  <<SubSeq(s, 1, k - 1)>> \o SplitNL(SubSeq(s, k + 1, Len(s)))

IsSgrParam(c) == c \in {"0", "1", "2", "3", "4", "5", "6", "7", "8", "9", ";"}

\* index of the first character at or after i that is not in [0-9;]
RECURSIVE SkipSgrParams(_, _)
SkipSgrParams(s, i) ==
    IF i <= Len(s) /\ IsSgrParam(s[i]) THEN SkipSgrParams(s, i + 1) ELSE i

\* line.replace(/\u001B\[[0-9;]*m/g, '') from position i on
RECURSIVE StripFrom(_, _)
StripFrom(s, i) ==
    IF i > Len(s) THEN <<>>
    ELSE IF s[i] = ESC /\ i + 1 <= Len(s) /\ s[i + 1] = "["
         THEN LET j == SkipSgrParams(s, i + 2)
              IN  IF j <= Len(s) /\ s[j] = "m"
                  THEN StripFrom(s, j + 1)
                  ELSE <<s[i]>> \o StripFrom(s, i + 1)
         ELSE <<s[i]>> \o StripFrom(s, i + 1)

\* mutant of the stripping: the colour sequences stay in the line
StripSgr_Identity(s) == s

StripSgr(s) == StripFrom(s, 1)

\* Math.ceil(a / b) for a >= 0, b > 0
CeilDiv(a, b) == (a + b - 1) \div b

RECURSIVE SumLineRows(_, _)
SumLineRows(lines, terminalWidth) ==
    IF lines = <<>> THEN 0
    ELSE LET lineWidth == Len(StripSgr(Head(lines)))
         IN  (IF lineWidth = 0 THEN 1 ELSE CeilDiv(lineWidth, terminalWidth))
             + SumLineRows(Tail(lines), terminalWidth)

\* mutant of countTerminalLines: the empty text is measured like a line
countTerminalLines_EmptyIsOneRow(text, terminalWidth) ==
    IF terminalWidth <= 0 THEN Len(SplitNL(text))
    ELSE SumLineRows(SplitNL(text), terminalWidth)

\* mutant of countTerminalLines: without a width the "\n" are counted
countTerminalLines_NewlineCount(text, terminalWidth) ==
    IF ~Truthy(text) THEN 0
    ELSE IF terminalWidth <= 0 THEN Len(SplitNL(text)) - 1
    ELSE SumLineRows(SplitNL(text), terminalWidth)

\* mutant of countTerminalLines: the piece after the last "\n" is not counted
countTerminalLines_DropsLastLine(text, terminalWidth) ==
    IF ~Truthy(text) THEN 0
    ELSE IF terminalWidth <= 0 THEN Len(SplitNL(text))
    ELSE LET lines == SplitNL(text)
         IN  SumLineRows(SubSeq(lines, 1, Len(lines) - 1), terminalWidth)

countTerminalLines(text, terminalWidth) ==
    IF ~Truthy(text) THEN 0
    ELSE IF terminalWidth <= 0 THEN Len(SplitNL(text))
    ELSE SumLineRows(SplitNL(text), terminalWidth)

\* --------------------------------------------------- terminal operations
OpStdout(content, scrollback) ==
    [type |-> "stdout", content |-> content, scrollback |-> scrollback, count |-> 0]
OpStderr(content) ==
    [type |-> "stderr", content |-> content, scrollback |-> FALSE, count |-> 0]
OpCursorHide ==
    [type |-> "cursorHide", content |-> <<>>, scrollback |-> FALSE, count |-> 0]
OpCursorShow ==
    [type |-> "cursorShow", content |-> <<>>, scrollback |-> FALSE, count |-> 0]
OpClear(count) ==
    [type |-> "clear", content |-> <<>>, scrollback |-> FALSE, count |-> count]
OpClearTerminal ==
    [type |-> "clearTerminal", content |-> <<>>, scrollback |-> FALSE, count |-> 0]
OpSyncStart ==
    [type |-> "synchronizedUpdateStart", content |-> <<>>, scrollback |-> FALSE, count |-> 0]
OpSyncEnd ==
    [type |-> "synchronizedUpdateEnd", content |-> <<>>, scrollback |-> FALSE, count |-> 0]

\* the ANSI sequences, each one token of the output stream
SYNC_START == "ESC[?2026h"
SYNC_END == "ESC[?2026l"
CURSOR_HIDE == "ESC[?25l"
CURSOR_SHOW == "ESC[?25h"
CURSOR_LEFT == "ESC[G"
CURSOR_UP == "ESC[1A"
ERASE_LINE == "ESC[2K"
CLEAR_SCREEN_AND_SCROLLBACK == "ESC[2JESC[3JESC[H"
CLEAR_SCREEN_WINDOWS == "ESC[2JESC[0f"

\* env: process.platform and the two environment tests of getClearSequence
getClearSequence(env) ==
    IF env.platform = "win32"
    THEN IF env.isWindowsTerminal \/ env.isVSCode
         THEN CLEAR_SCREEN_AND_SCROLLBACK
         ELSE CLEAR_SCREEN_WINDOWS
    ELSE CLEAR_SCREEN_AND_SCROLLBACK

RECURSIVE EraseLoop(_, _)
EraseLoop(i, count) ==
    IF i >= count THEN <<>>
    ELSE <<ERASE_LINE>>
         \o (IF i < count - 1 THEN <<CURSOR_UP>> ELSE <<>>)
         \o EraseLoop(i + 1, count)

\* mutant of eraseLines: the cursor also moves up after the last line
eraseLines_UpAfterLast(count) ==
    IF count <= 0 THEN <<>>
    ELSE LET up[i \in 0..count] ==
                 IF i = count THEN <<>> ELSE <<ERASE_LINE, CURSOR_UP>> \o up[i + 1]
         IN  up[0] \o <<CURSOR_LEFT>>

eraseLines(count) ==
    IF count <= 0 THEN <<>> ELSE EraseLoop(0, count) \o <<CURSOR_LEFT>>

\* the loop of executeTerminalOperations from operation i on; buffer is the
\* pending stdout text, writes the stream writes made so far
RECURSIVE ExecLoop(_, _, _, _, _)
ExecLoop(operations, i, buffer, writes, env) ==
    IF i > Len(operations)
    THEN IF Truthy(buffer)
         THEN Append(writes, [stream |-> "stdout", data |-> buffer])
         ELSE writes
    ELSE LET op == operations[i]
         IN  IF op.type = "stdout"
             THEN ExecLoop(operations, i + 1, buffer \o op.content, writes, env)
             ELSE IF op.type = "stderr"
             THEN ExecLoop(operations, i + 1, <<>>,
                           (IF Truthy(buffer)
                            THEN Append(writes, [stream |-> "stdout", data |-> buffer])
                            ELSE writes)
                           \o <<[stream |-> "stderr", data |-> op.content]>>,
                           env)
             ELSE IF op.type = "clear"
             THEN ExecLoop(operations, i + 1, buffer \o eraseLines(op.count), writes, env)
             ELSE IF op.type = "clearTerminal"
             THEN ExecLoop(operations, i + 1, buffer \o <<getClearSequence(env)>>, writes, env)
             ELSE IF op.type = "cursorHide"
             THEN ExecLoop(operations, i + 1, buffer \o <<CURSOR_HIDE>>, writes, env)
             ELSE IF op.type = "cursorShow"
             THEN ExecLoop(operations, i + 1, buffer \o <<CURSOR_SHOW>>, writes, env)
             ELSE IF op.type = "synchronizedUpdateStart"
             THEN ExecLoop(operations, i + 1, buffer \o <<SYNC_START>>, writes, env)
             ELSE IF op.type = "synchronizedUpdateEnd"
             THEN ExecLoop(operations, i + 1, buffer \o <<SYNC_END>>, writes, env)
             ELSE ExecLoop(operations, i + 1, buffer, writes, env)

\* mutant of executeTerminalOperations: the error stream is written first
executeTerminalOperations_StderrFirst(operations, env) ==
    LET w == ExecLoop(operations, 1, <<>>, <<>>, env)
    IN  SelectSeq(w, LAMBDA x : x.stream = "stderr")
        \o SelectSeq(w, LAMBDA x : x.stream = "stdout")

\* the writes executeTerminalOperations makes, in order
executeTerminalOperations(operations, env) ==
    ExecLoop(operations, 1, <<>>, <<>>, env)

\* ------------------------------------------------------ CustomRenderLogger
Frame(staticOutput, dynamicOutput, columns, rows) ==
    [staticOutput |-> staticOutput, dynamicOutput |-> dynamicOutput,
     columns |-> columns, rows |-> rows]

NewLoggerState(initialFrame) ==
    [fullStaticOutput |-> <<>>, previousDynamicOutput |-> <<>>,
     prevFrame |-> initialFrame]

\* a method's outcome: the state it leaves and the operations it returns
Out(st, o) == [st |-> st, ops |-> o]

\* mutants of shouldDoFullRedraw: a rows/columns mix-up, and a test of the
\* columns alone
ShouldDoFullRedraw_Mixup(st, f) ==
    f.columns # st.prevFrame.columns \/ f.rows # st.prevFrame.columns

ShouldDoFullRedraw_ColumnsOnly(st, f) ==
    f.columns # st.prevFrame.columns

ShouldDoFullRedraw(st, f) ==
    f.columns # st.prevFrame.columns \/ f.rows # st.prevFrame.rows

\* mutant of the accumulation: the newest increment is put first
Accumulate_NewestFirst(full, staticOutput) ==
    IF Truthy(full) THEN staticOutput \o <<NL>> \o full
    ELSE full \o staticOutput

\* mutant of the accumulation: the separator is forgotten
Accumulate_NoSeparator(full, staticOutput) ==
    full \o staticOutput

\* the accumulation with the blank-line separator
Accumulate(full, staticOutput) ==
    IF Truthy(full) THEN full \o <<NL>> \o staticOutput
    ELSE full \o staticOutput

RedrawOps(full, f) ==
    << OpSyncStart, OpClearTerminal,
       OpStdout(full, TRUE),
       OpStdout(f.dynamicOutput, TRUE),
       OpStdout(<<NL>>, TRUE),
       OpSyncEnd >>

GetDebugOps(st, f) ==
    LET full == IF Truthy(Trim(f.staticOutput))
                THEN Accumulate(st.fullStaticOutput, f.staticOutput)
                ELSE st.fullStaticOutput
    IN  Out([st EXCEPT !.fullStaticOutput = full, !.prevFrame = f],
            RedrawOps(full, f))

\* mutant of getFullRedrawOps: the accumulator is written as it was before
\* the frame's increment was appended
GetFullRedrawOps_StaleFull(st, f) ==
    LET full == IF Truthy(Trim(f.staticOutput))
                THEN Accumulate(st.fullStaticOutput, f.staticOutput)
                ELSE st.fullStaticOutput
    IN  Out([st EXCEPT !.fullStaticOutput = full,
                       !.previousDynamicOutput = f.dynamicOutput \o <<NL>>,
                       !.prevFrame = f],
            RedrawOps(st.fullStaticOutput, f))

\* mutant of getFullRedrawOps: the status is recorded without the newline
\* written after it
GetFullRedrawOps_RecordsStatusOnly(st, f) ==
    LET full == IF Truthy(Trim(f.staticOutput))
                THEN Accumulate(st.fullStaticOutput, f.staticOutput)
                ELSE st.fullStaticOutput
    IN  Out([st EXCEPT !.fullStaticOutput = full,
                       !.previousDynamicOutput = f.dynamicOutput,
                       !.prevFrame = f],
            RedrawOps(full, f))

GetFullRedrawOps(st, f) ==
    LET full == IF Truthy(Trim(f.staticOutput))
                THEN Accumulate(st.fullStaticOutput, f.staticOutput)
                ELSE st.fullStaticOutput
    IN  Out([st EXCEPT !.fullStaticOutput = full,
                       !.previousDynamicOutput = f.dynamicOutput \o <<NL>>,
                       !.prevFrame = f],
            RedrawOps(full, f))

\* mutant of getStaticOutputOps: the status of the previous frame is
\* cleared whether or not it was ever written
GetStaticOutputOps_ClearsUnshown(st, f) ==
    IF ~Truthy(Trim(f.staticOutput)) THEN Out(st, <<>>)
    ELSE LET needsExtraNewline == Truthy(st.fullStaticOutput)
             linesToClear ==
                 countTerminalLines(st.prevFrame.dynamicOutput \o <<NL>>,
                                    st.prevFrame.columns)
             contentToWrite ==
                 IF needsExtraNewline THEN <<NL>> \o f.staticOutput ELSE f.staticOutput
         IN  Out([st EXCEPT
                    !.fullStaticOutput = Accumulate(st.fullStaticOutput, f.staticOutput),
                    !.previousDynamicOutput = <<>>],
                 (IF linesToClear > 0 THEN <<OpClear(linesToClear)>> ELSE <<>>)
                 \o <<OpStdout(contentToWrite, TRUE)>>)

\* mutant of getStaticOutputOps: the increment is written without the blank
\* line that separates it from the content before it
GetStaticOutputOps_NoBlankLine(st, f) ==
    IF ~Truthy(Trim(f.staticOutput)) THEN Out(st, <<>>)
    ELSE LET linesToClear ==
                 IF Truthy(st.previousDynamicOutput)
                 THEN countTerminalLines(st.previousDynamicOutput, st.prevFrame.columns)
                 ELSE 0
         IN  Out([st EXCEPT
                    !.fullStaticOutput = Accumulate(st.fullStaticOutput, f.staticOutput),
                    !.previousDynamicOutput = <<>>],
                 (IF linesToClear > 0 THEN <<OpClear(linesToClear)>> ELSE <<>>)
                 \o <<OpStdout(f.staticOutput, TRUE)>>)

\* mutant of getStaticOutputOps: the status it cleared stays recorded as
\* shown
GetStaticOutputOps_NoReset(st, f) ==
    IF ~Truthy(Trim(f.staticOutput)) THEN Out(st, <<>>)
    ELSE LET needsExtraNewline == Truthy(st.fullStaticOutput)
             linesToClear ==
                 IF Truthy(st.previousDynamicOutput)
                 THEN countTerminalLines(st.previousDynamicOutput, st.prevFrame.columns)
                 ELSE 0
             contentToWrite ==
                 IF needsExtraNewline THEN <<NL>> \o f.staticOutput ELSE f.staticOutput
         IN  Out([st EXCEPT
                    !.fullStaticOutput = Accumulate(st.fullStaticOutput, f.staticOutput)],
                 (IF linesToClear > 0 THEN <<OpClear(linesToClear)>> ELSE <<>>)
                 \o <<OpStdout(contentToWrite, TRUE)>>)

GetStaticOutputOps(st, f) ==
    IF ~Truthy(Trim(f.staticOutput)) THEN Out(st, <<>>)
    ELSE LET needsExtraNewline == Truthy(st.fullStaticOutput)
             linesToClear ==
                 IF Truthy(st.previousDynamicOutput)
                 THEN countTerminalLines(st.previousDynamicOutput, st.prevFrame.columns)
                 ELSE 0
             contentToWrite ==
                 IF needsExtraNewline THEN <<NL>> \o f.staticOutput ELSE f.staticOutput
         IN  Out([st EXCEPT
                    !.fullStaticOutput = Accumulate(st.fullStaticOutput, f.staticOutput),
                    !.previousDynamicOutput = <<>>],
                 (IF linesToClear > 0 THEN <<OpClear(linesToClear)>> ELSE <<>>)
                 \o <<OpStdout(contentToWrite, TRUE)>>)

\* mutant of getDynamicOutputOps: the status is written as scrollback content
GetDynamicOutputOps_Scrollback(st, f) ==
    LET newOutput == f.dynamicOutput \o <<NL>>
        linesToClear ==
            IF Truthy(st.previousDynamicOutput)
            THEN countTerminalLines(st.previousDynamicOutput, st.prevFrame.columns)
            ELSE 0
    IN  IF newOutput = st.previousDynamicOutput THEN Out(st, <<>>)
        ELSE Out([st EXCEPT !.previousDynamicOutput = newOutput],
                 (IF linesToClear > 0 THEN <<OpClear(linesToClear)>> ELSE <<>>)
                 \o << OpStdout(f.dynamicOutput, TRUE), OpStdout(<<NL>>, FALSE) >>)

\* mutant of getDynamicOutputOps: a status equal to the previous frame's is
\* taken as still shown
GetDynamicOutputOps_SkipsUnchanged(st, f) ==
    LET newOutput == f.dynamicOutput \o <<NL>>
        linesToClear ==
            IF Truthy(st.previousDynamicOutput)
            THEN countTerminalLines(st.previousDynamicOutput, st.prevFrame.columns)
            ELSE 0
    IN  IF f.dynamicOutput = st.prevFrame.dynamicOutput THEN Out(st, <<>>)
        ELSE Out([st EXCEPT !.previousDynamicOutput = newOutput],
                 (IF linesToClear > 0 THEN <<OpClear(linesToClear)>> ELSE <<>>)
                 \o << OpStdout(f.dynamicOutput, FALSE), OpStdout(<<NL>>, FALSE) >>)

GetDynamicOutputOps(st, f) ==
    LET newOutput == f.dynamicOutput \o <<NL>>
        linesToClear ==
            IF Truthy(st.previousDynamicOutput)
            THEN countTerminalLines(st.previousDynamicOutput, st.prevFrame.columns)
            ELSE 0
    IN  IF newOutput = st.previousDynamicOutput THEN Out(st, <<>>)
        ELSE Out([st EXCEPT !.previousDynamicOutput = newOutput],
                 (IF linesToClear > 0 THEN <<OpClear(linesToClear)>> ELSE <<>>)
                 \o << OpStdout(f.dynamicOutput, FALSE), OpStdout(<<NL>>, FALSE) >>)

\* mutant of the non-TTY branch: whitespace-only increments are dropped
RenderNonTTY_Trim(st, f) ==
    Out([st EXCEPT !.prevFrame = f],
        IF Truthy(Trim(f.staticOutput)) THEN <<OpStdout(f.staticOutput, TRUE)>> ELSE <<>>)

\* the non-TTY branch of render
RenderNonTTY(st, f) ==
    Out([st EXCEPT !.prevFrame = f],
        IF Truthy(f.staticOutput) THEN <<OpStdout(f.staticOutput, TRUE)>> ELSE <<>>)

\* the "no changes" test of render
NoChanges(st, f) ==
    /\ ~Truthy(Trim(f.staticOutput))
    /\ f.dynamicOutput = st.prevFrame.dynamicOutput

\* mutant of the wrapping: the end marker is forgotten
WrapSynchronized_NoEnd(o) ==
    IF Len(o) = 0 THEN <<>> ELSE <<OpSyncStart>> \o o

\* the synchronized-update wrapping of the normal render
WrapSynchronized(o) ==
    IF Len(o) = 0 THEN <<>> ELSE <<OpSyncStart>> \o o \o <<OpSyncEnd>>

\* the normal incremental branch of render
RenderIncremental(st, f) ==
    LET s == GetStaticOutputOps(st, f)
        d == GetDynamicOutputOps(s.st, f)
    IN  Out([d.st EXCEPT !.prevFrame = f], WrapSynchronized(s.ops \o d.ops))

Render(opts, st, f) ==
    IF opts.debug THEN GetDebugOps(st, f)
    ELSE IF ~opts.isTTY THEN RenderNonTTY(st, f)
    ELSE IF ShouldDoFullRedraw(st, f) THEN GetFullRedrawOps(st, f)
    ELSE IF NoChanges(st, f) THEN Out(st, <<>>)
    ELSE RenderIncremental(st, f)

\* CustomRenderLogger.clear
ClearLogger(st) ==
    [st EXCEPT !.fullStaticOutput = <<>>, !.previousDynamicOutput = <<>>]

\* ------------------------------------------------ the engine under frames
\* increments: empty, whitespace-only, and two distinct messages
StaticTexts == { <<>>, <<" ">>, <<"a">>, <<"b", NL>> }
\* status texts: none, one short line, one line that wraps at 2 columns
StatusTexts == { <<>>, <<"f">>, <<"g", "g", "g">> }
\* terminal dimensions <<columns, rows>>
DimsSet == { <<2, 2>>, <<3, 2>>, <<2, 3>> }

IdleTerm == [screen |-> <<>>, row |-> 0, col |-> 0, pendingWrap |-> FALSE]
IdleTin == [status |-> <<>>, width |-> 0, startRow |-> 0, before |-> <<>>,
            occupied |-> {}]
IdleView == [open |-> FALSE]
IdleLc == [called |-> FALSE]
IdleExec == [called |-> FALSE]
IdleMs == [calls |-> 0]
IdleSm == [pc |-> "unused"]
IdleFp == [calls |-> 0]
IdleSw == [pc |-> "unused"]
IdleLru == [pc |-> "unused"]
IdleApp == [pc |-> "unused"]
IdlePw == [pc |-> "unused"]
LaterIdle ==
    /\ sw = IdleSw /\ lru = IdleLru /\ app = IdleApp
    /\ pw = IdlePw

\* the terminal as the operations of the frames rendered so far have left it:
\* the text written to the scrollback since the screen was last cleared, and
\* the status written last with the column count of its frame (prior: the
\* status that was on the terminal before the last frame)
NothingShown == [scrollback |-> <<>>, hasStatus |-> FALSE, status |-> <<>>,
                 columns |-> 0,
                 prior |-> [hasStatus |-> FALSE, status |-> <<>>, columns |-> 0]]

RECURSIVE ScrollbackOf(_)
ScrollbackOf(o) ==
    IF o = <<>> THEN <<>>
    ELSE (IF Head(o).type = "stdout" /\ Head(o).scrollback
          THEN Head(o).content ELSE <<>>) \o ScrollbackOf(Tail(o))

ShownAfter(sh, o, f) ==
    LET cleared == \E i \in DOMAIN o : o[i].type = "clearTerminal"
        erased == \E i \in DOMAIN o : o[i].type = "clear"
        live == SelectSeq(o, LAMBDA x : x.type = "stdout" /\ ~x.scrollback)
    IN  IF cleared
        THEN [scrollback |-> o[3].content, hasStatus |-> TRUE,
              status |-> o[4].content, columns |-> f.columns,
              prior |-> [hasStatus |-> sh.hasStatus, status |-> sh.status,
                         columns |-> sh.columns]]
        ELSE [scrollback |-> sh.scrollback \o ScrollbackOf(o),
              hasStatus |-> IF live # <<>> THEN TRUE
                            ELSE IF erased THEN FALSE
                            ELSE sh.hasStatus,
              status |-> IF live # <<>> THEN live[1].content
                         ELSE IF erased THEN <<>> ELSE sh.status,
              columns |-> IF live # <<>> THEN f.columns
                          ELSE IF erased THEN 0 ELSE sh.columns,
              prior |-> [hasStatus |-> sh.hasStatus, status |-> sh.status,
                         columns |-> sh.columns]]

\* new CustomRenderLogger({isTTY}, initialFrame), as useSessionServices and
\* StreamView construct it: no debug option, an empty staticOutput
Init ==
    /\ \E tty \in BOOLEAN : options = [isTTY |-> tty, debug |-> FALSE]
    /\ \E d \in StatusTexts, dm \in DimsSet :
          /\ state = NewLoggerState(Frame(<<>>, d, dm[1], dm[2]))
          /\ frame = Frame(<<>>, d, dm[1], dm[2])
    /\ prevArg = frame
    /\ pre = state
    /\ ops = <<>>
    /\ nCalls = 0
    /\ increments = <<>>
    /\ resized = FALSE
    /\ term = IdleTerm
    /\ tpc = "idle"
    /\ tin = IdleTin
    /\ view = IdleView
    /\ lc = IdleLc /\ exec = IdleExec /\ ms = IdleMs
    /\ shown = NothingShown /\ sm = IdleSm /\ fp = IdleFp /\ LaterIdle

\* one call of render(frame)
RenderCall ==
    /\ nCalls < MaxFrames
    /\ \E s \in StaticTexts, d \in StatusTexts, dm \in DimsSet :
          LET f == Frame(s, d, dm[1], dm[2])
              r == Render(options, state, f)
          IN  /\ state' = r.st
              /\ ops' = r.ops
              /\ frame' = f
              /\ increments' = Append(increments, s)
              /\ shown' = ShownAfter(shown, r.ops, f)
              /\ resized' = (resized \/ f.columns # frame.columns \/ f.rows # frame.rows)
    /\ prevArg' = frame
    /\ pre' = state
    /\ nCalls' = nCalls + 1
    /\ UNCHANGED <<options, term, tpc, tin, view, lc, exec, ms, sm, fp, later>>

Next == RenderCall

Spec == Init /\ [][Next]_vars

\* ------------------------------------- the engine under the two messages
\* "Hello\n", "World\n" and the status "footer" on a terminal of 80 columns
\* and 24 rows; a second status and a second width stand for every other
\* frame the engine may see in between
Hello == <<"H", "e", "l", "l", "o", NL>>
World == <<"W", "o", "r", "l", "d", NL>>
Footer == <<"f", "o", "o", "t", "e", "r">>
ScenarioStatics == { <<>>, Hello, World }
ScenarioStatuses == { Footer, <<"b", "u", "s", "y">> }
ScenarioDims == { <<80, 24>>, <<40, 24>> }

InitScenario ==
    /\ \E tty \in BOOLEAN : options = [isTTY |-> tty, debug |-> FALSE]
    /\ \E d \in ScenarioStatuses, dm \in ScenarioDims :
          /\ state = NewLoggerState(Frame(<<>>, d, dm[1], dm[2]))
          /\ frame = Frame(<<>>, d, dm[1], dm[2])
    /\ prevArg = frame
    /\ pre = state
    /\ ops = <<>>
    /\ nCalls = 0
    /\ increments = <<>>
    /\ resized = FALSE
    /\ term = IdleTerm
    /\ tpc = "idle"
    /\ tin = IdleTin
    /\ view = IdleView
    /\ lc = IdleLc /\ exec = IdleExec /\ ms = IdleMs
    /\ shown = NothingShown /\ sm = IdleSm /\ fp = IdleFp /\ LaterIdle

\* one call of render(frame) with a frame of the scenario
ScenarioRender ==
    /\ nCalls < MaxFrames
    /\ \E s \in ScenarioStatics, d \in ScenarioStatuses, dm \in ScenarioDims :
          LET f == Frame(s, d, dm[1], dm[2])
              r == Render(options, state, f)
          IN  /\ state' = r.st
              /\ ops' = r.ops
              /\ frame' = f
              /\ increments' = Append(increments, s)
              /\ shown' = ShownAfter(shown, r.ops, f)
              /\ resized' = (resized \/ f.columns # frame.columns \/ f.rows # frame.rows)
    /\ prevArg' = frame
    /\ pre' = state
    /\ nCalls' = nCalls + 1
    /\ UNCHANGED <<options, term, tpc, tin, view, lc, exec, ms, sm, fp, later>>

NextScenario == ScenarioRender

SpecScenario == InitScenario /\ [][NextScenario]_vars

\* ------------------------------------------------ countTerminalLines alone
\* the engine and the view at rest while a function is called on its own
EngineUnused ==
    /\ options = [isTTY |-> TRUE, debug |-> FALSE]
    /\ state = NewLoggerState(Frame(<<>>, <<>>, 2, 2))
    /\ frame = state.prevFrame
    /\ prevArg = frame
    /\ pre = state
    /\ ops = <<>>
    /\ nCalls = 0
    /\ increments = <<>>
    /\ resized = FALSE
    /\ term = IdleTerm
    /\ tpc = "idle"
    /\ tin = IdleTin
    /\ view = IdleView

\* what a text is made of: a visible character, a newline, a colour (SGR)
\* sequence, and an escape sequence that is not a colour sequence
LinePieces ==
    { <<"a">>, <<NL>>, <<ESC, "[", "3", "1", "m">>, <<ESC, "[", "2", "K">> }
PieceSeqs == UNION { [1..n -> LinePieces] : n \in 0..MaxPieces }
LineWidths == {-1, 0, 1, 2, 3}

RECURSIVE Flatten(_)
Flatten(ps) == IF ps = <<>> THEN <<>> ELSE Head(ps) \o Flatten(Tail(ps))

InitLines ==
    /\ EngineUnused
    /\ \E ps \in PieceSeqs, w \in LineWidths :
          lc = [called |-> FALSE, pieces |-> ps, text |-> Flatten(ps),
                width |-> w, result |-> 0]
    /\ exec = IdleExec /\ ms = IdleMs
    /\ shown = NothingShown /\ sm = IdleSm /\ fp = IdleFp /\ LaterIdle

\* countTerminalLines(text, width) is called
CountLines ==
    /\ ~lc.called
    /\ lc' = [lc EXCEPT !.called = TRUE,
                        !.result = countTerminalLines(lc.text, lc.width)]
    /\ UNCHANGED <<options, state, ops, frame, prevArg, pre, nCalls, increments,
                   resized, term, tpc, tin, view, exec, ms, shown, sm, fp, later>>

NextLines == CountLines

SpecLines == InitLines /\ [][NextLines]_vars

\* ----------------------------------------- executeTerminalOperations alone
\* one operation of every type; a write of nothing and a clear of no line
ExecOps ==
    { OpStdout(<<"a">>, TRUE), OpStdout(<<>>, FALSE), OpStderr(<<"e">>),
      OpClear(2), OpClear(0), OpClearTerminal, OpCursorHide, OpCursorShow,
      OpSyncStart, OpSyncEnd }
OpLists == UNION { [1..n -> ExecOps] : n \in 0..MaxOps }
\* the platforms getClearSequence tells apart
Envs ==
    { [platform |-> "linux", isWindowsTerminal |-> FALSE, isVSCode |-> FALSE],
      [platform |-> "win32", isWindowsTerminal |-> FALSE, isVSCode |-> FALSE],
      [platform |-> "win32", isWindowsTerminal |-> TRUE, isVSCode |-> FALSE] }

InitExec ==
    /\ EngineUnused
    /\ \E operations \in OpLists, env \in Envs :
          exec = [called |-> FALSE, operations |-> operations, env |-> env,
                  writes |-> <<>>]
    /\ lc = IdleLc /\ ms = IdleMs
    /\ shown = NothingShown /\ sm = IdleSm /\ fp = IdleFp /\ LaterIdle

\* executeTerminalOperations(terminal, operations) is called
ExecuteOps ==
    /\ ~exec.called
    /\ exec' = [exec EXCEPT
                  !.called = TRUE,
                  !.writes = executeTerminalOperations(exec.operations, exec.env)]
    /\ UNCHANGED <<options, state, ops, frame, prevArg, pre, nCalls, increments,
                   resized, term, tpc, tin, view, lc, ms, shown, sm, fp, later>>

NextExec == ExecuteOps

SpecExec == InitExec /\ [][NextExec]_vars

\* --------------------------------------------------------- the terminal
\* A terminal of the VT family, as far as the bytes above address it: a
\* buffer of rows (row 0 first), a cursor, automatic wrapping with the
\* deferred ("pending") wrap of VT100/xterm, "\n" moving to the start of
\* the next row (the tty's ONLCR), CSI sequences ending in "m" changing
\* colours only.  The record also notes which rows were written and erased.
Max(a, b) == IF a >= b THEN a ELSE b

\* the rows, extended with blank rows so that row r (from 0) exists
WithRow(screen, r) ==
    IF Len(screen) > r THEN screen
    ELSE screen \o [i \in 1..(r + 1 - Len(screen)) |-> <<>>]

\* the line with character c put in column col (from 0)
PutCell(line, col, c) ==
    LET padded == IF Len(line) > col THEN line
                  ELSE line \o [i \in 1..(col + 1 - Len(line)) |-> " "]
    IN  [padded EXCEPT ![col + 1] = c]

TermPrint(t, c) ==
    LET r == IF t.pendingWrap THEN t.row + 1 ELSE t.row
        k == IF t.pendingWrap THEN 0 ELSE t.col
        sc == WithRow(t.screen, r)
    IN  [t EXCEPT !.screen = [sc EXCEPT ![r + 1] = PutCell(sc[r + 1], k, c)],
                  !.row = r,
                  !.col = IF k + 1 < t.width THEN k + 1 ELSE k,
                  !.pendingWrap = ~(k + 1 < t.width),
                  !.written = t.written \cup {r}]

TermPut(t, tok) ==
    IF tok = NL
    THEN [t EXCEPT !.screen = WithRow(t.screen, t.row + 1),
                   !.row = t.row + 1, !.col = 0, !.pendingWrap = FALSE]
    ELSE IF tok = ERASE_LINE
    THEN [t EXCEPT !.screen = [t.screen EXCEPT ![t.row + 1] = <<>>],
                   !.erased = t.erased \cup {t.row}]
    ELSE IF tok = CURSOR_UP
    THEN [t EXCEPT !.row = Max(t.row - 1, 0), !.pendingWrap = FALSE]
    ELSE IF tok = CURSOR_LEFT
    THEN [t EXCEPT !.col = 0, !.pendingWrap = FALSE]
    ELSE IF tok \in {SYNC_START, SYNC_END, CURSOR_HIDE, CURSOR_SHOW}
    THEN t
    ELSE TermPrint(t, tok)

\* CSI parameter bytes
IsCsiParam(c) == IsSgrParam(c) \/ c \in {":", "<", "=", ">", "?"}

RECURSIVE SkipCsiParams(_, _)
SkipCsiParams(s, i) ==
    IF i <= Len(s) /\ IsCsiParam(s[i]) THEN SkipCsiParams(s, i + 1) ELSE i

\* the terminal after the bytes of s from position i on
RECURSIVE TermFeed(_, _, _)
TermFeed(t, s, i) ==
    IF i > Len(s) THEN t
    ELSE IF s[i] = ESC /\ i + 1 <= Len(s) /\ s[i + 1] = "["
         THEN TermFeed(t, s, SkipCsiParams(s, i + 2) + 1)
         ELSE TermFeed(TermPut(t, s[i]), s, i + 1)

\* the terminal after the stdout writes of an operation list
RECURSIVE TermWrites(_, _)
TermWrites(t, writes) ==
    IF writes = <<>> THEN t
    ELSE TermWrites(TermFeed(t, Head(writes).data, 1), Tail(writes))

PosixEnv == [platform |-> "linux", isWindowsTerminal |-> FALSE, isVSCode |-> FALSE]

\* status texts for the terminal: none, short, as wide as the terminal,
\* wrapping, several lines, a leading blank line, coloured
TermStatuses ==
    { <<>>, <<"f">>, <<"g", "g">>, <<"g", "g", "g">>, <<"g", "g", "g", "g">>,
      <<"f", NL, "g", "g", "g">>, <<NL, "g", "g">>,
      <<ESC, "[", "1", "m", "f", "f", ESC, "[", "2", "2", "m">>,
      <<ESC, "[", "3", "1", ";", "1", "m", "g", "g", "g", ESC, "[", "0", "m", NL, "f">> }
TermWidths == {2, 3}
TermStartRows == {0, 1, 2}

\* The cursor stands at column 0 of row startRow below earlier transcript
\* rows; the engine has shown nothing yet (its initial frame carried the
\* status "i").
InitTerm ==
    /\ options = [isTTY |-> TRUE, debug |-> FALSE]
    /\ \E S \in TermStatuses, w \in TermWidths, r \in TermStartRows :
          LET before == [i \in 1..r |-> <<"x">>]
          IN  /\ tin = [status |-> S, width |-> w, startRow |-> r,
                         before |-> before, occupied |-> {}]
              /\ term = [screen |-> WithRow(before, r), row |-> r, col |-> 0,
                          pendingWrap |-> FALSE, width |-> w,
                          written |-> {}, erased |-> {}]
              /\ state = NewLoggerState(Frame(<<>>, <<"i">>, w, 2))
    /\ frame = state.prevFrame
    /\ prevArg = frame
    /\ pre = state
    /\ ops = <<>>
    /\ nCalls = 0
    /\ increments = <<>>
    /\ resized = FALSE
    /\ tpc = "start"
    /\ view = IdleView
    /\ lc = IdleLc /\ exec = IdleExec /\ ms = IdleMs
    /\ shown = NothingShown /\ sm = IdleSm /\ fp = IdleFp /\ LaterIdle

\* a status-only frame: the dynamic phase writes the status and "\n"
TermWriteStatus ==
    /\ tpc = "start"
    /\ LET f == Frame(<<>>, tin.status, tin.width, 2)
           r == Render(options, state, f)
       IN  /\ state' = r.st
           /\ ops' = r.ops
           /\ frame' = f
           /\ term' = TermWrites(term, executeTerminalOperations(r.ops, PosixEnv))
    /\ tin' = [tin EXCEPT !.occupied = tin.startRow..term'.row]
    /\ tpc' = "written"
    /\ prevArg' = frame
    /\ pre' = state
    /\ nCalls' = nCalls + 1
    /\ UNCHANGED <<options, increments, resized, view, lc, exec, ms, shown,
                   sm, fp, later>>

\* the next frame brings an increment: the clear of its static phase is
\* executed (the operations up to the scrollback write)
TermEraseStatus ==
    /\ tpc = "written"
    /\ LET f == Frame(<<"a", NL>>, tin.status, tin.width, 2)
           r == GetStaticOutputOps(state, f)
           clears == SelectSeq(r.ops, LAMBDA o : o.type = "clear")
       IN  /\ state' = r.st
           /\ ops' = clears
           /\ frame' = f
           /\ term' = TermWrites(term, executeTerminalOperations(clears, PosixEnv))
    /\ tpc' = "erased"
    /\ prevArg' = frame
    /\ pre' = state
    /\ nCalls' = nCalls + 1
    /\ UNCHANGED <<options, increments, resized, tin, view, lc, exec, ms,
                   shown, sm, fp, later>>

NextTerm == TermWriteStatus \/ TermEraseStatus

SpecTerm == InitTerm /\ [][NextTerm]_vars

\* ----------------------------------------------------------- MessageStore
ThinkingBlock(sessionId, messageId, thinkingIndex, timestamp, text) ==
    [type |-> "thinking", sessionId |-> sessionId, messageId |-> messageId,
     thinkingIndex |-> thinkingIndex, timestamp |-> timestamp, text |-> text]
UserMessage(sessionId, messageId, timestamp, text) ==
    [type |-> "user", sessionId |-> sessionId, messageId |-> messageId,
     thinkingIndex |-> "", timestamp |-> timestamp, text |-> text]

\* the key as the template string builds it
getBlockKey(block) ==
    IF block.type = "thinking"
    THEN block.sessionId \o <<"-">> \o block.messageId \o <<"-">> \o <<block.thinkingIndex>>
    ELSE block.sessionId \o <<"-">> \o block.messageId

NewStore == [blocks |-> <<>>, blockKeys |-> {}, listening |-> FALSE]

\* mutant of the deduplication: a key is looked up among the keys the store
\* held before the call only
Dedupe_StoreKeysOnly(newBlocks, i, keys, blocksToAdd) ==
    LET fresh == SelectSeq(newBlocks, LAMBDA b : getBlockKey(b) \notin keys)
    IN  [keys |-> keys \cup {getBlockKey(fresh[k]) : k \in DOMAIN fresh},
         blocksToAdd |-> fresh]

\* the deduplication loop of addBlocks from block i on
RECURSIVE Dedupe(_, _, _, _)
Dedupe(newBlocks, i, keys, blocksToAdd) ==
    IF i > Len(newBlocks) THEN [keys |-> keys, blocksToAdd |-> blocksToAdd]
    ELSE LET key == getBlockKey(newBlocks[i])
         IN  IF key \notin keys
             THEN Dedupe(newBlocks, i + 1, keys \cup {key}, Append(blocksToAdd, newBlocks[i]))
             ELSE Dedupe(newBlocks, i + 1, keys, blocksToAdd)

\* b put into a sequence sorted by timestamp, after the blocks that are not
\* newer (Array.prototype.sort is stable)
RECURSIVE InsertByTimestamp(_, _)
InsertByTimestamp(sorted, b) ==
    IF sorted = <<>> THEN <<b>>
    ELSE IF sorted[Len(sorted)].timestamp <= b.timestamp THEN Append(sorted, b)
    ELSE Append(InsertByTimestamp(SubSeq(sorted, 1, Len(sorted) - 1), b),
                sorted[Len(sorted)])

RECURSIVE SortByTimestamp(_)
SortByTimestamp(blocks) ==
    IF blocks = <<>> THEN <<>>
    ELSE InsertByTimestamp(SortByTimestamp(SubSeq(blocks, 1, Len(blocks) - 1)),
                           blocks[Len(blocks)])

\* mutant of addBlocks: listeners are notified of an all-duplicate batch too
addBlocks_NotifiesDuplicates(store, newBlocks) ==
    IF Len(newBlocks) = 0 THEN [store |-> store, notify |-> FALSE, result |-> FALSE]
    ELSE LET d == Dedupe(newBlocks, 1, store.blockKeys, <<>>)
             kept == [store EXCEPT !.blockKeys = d.keys]
             lastTimestamp ==
                 IF store.blocks # <<>> THEN store.blocks[Len(store.blocks)].timestamp ELSE 0
             allBlocksNewer ==
                 \A i \in DOMAIN d.blocksToAdd : d.blocksToAdd[i].timestamp >= lastTimestamp
         IN  IF Len(d.blocksToAdd) = 0
             THEN [store |-> kept, notify |-> TRUE, result |-> FALSE]
             ELSE [store |-> [kept EXCEPT !.blocks =
                                 IF allBlocksNewer
                                 THEN store.blocks \o d.blocksToAdd
                                 ELSE SortByTimestamp(store.blocks \o d.blocksToAdd)],
                   notify |-> TRUE, result |-> TRUE]

\* addBlocks: the store it leaves, whether listeners are notified, its result
addBlocks(store, newBlocks) ==
    IF Len(newBlocks) = 0 THEN [store |-> store, notify |-> FALSE, result |-> FALSE]
    ELSE LET d == Dedupe(newBlocks, 1, store.blockKeys, <<>>)
             kept == [store EXCEPT !.blockKeys = d.keys]
             lastTimestamp ==
                 IF store.blocks # <<>> THEN store.blocks[Len(store.blocks)].timestamp ELSE 0
             allBlocksNewer ==
                 \A i \in DOMAIN d.blocksToAdd : d.blocksToAdd[i].timestamp >= lastTimestamp
         IN  IF Len(d.blocksToAdd) = 0
             THEN [store |-> kept, notify |-> FALSE, result |-> FALSE]
             ELSE [store |-> [kept EXCEPT !.blocks =
                                 IF allBlocksNewer
                                 THEN store.blocks \o d.blocksToAdd
                                 ELSE SortByTimestamp(store.blocks \o d.blocksToAdd)],
                   notify |-> TRUE, result |-> TRUE]

\* mutant of clear: the deduplication keys survive
clearStore_KeepsKeys(store) == [store EXCEPT !.blocks = <<>>]

\* MessageStore.clear
clearStore(store) == [store EXCEPT !.blocks = <<>>, !.blockKeys = {}]

\* ------------------------------------------------- the StreamView component
\* renderFooterToString for a single session with a back action: margin
\* line, divider of the terminal's width, project line, navigation line
\* with the thinking status
RECURSIVE Divider(_)
Divider(n) == IF n <= 0 THEN <<>> ELSE <<"-">> \o Divider(n - 1)

renderFooterToString(alwaysThinkingEnabled, terminalWidth) ==
    <<NL>> \o Divider(terminalWidth) \o <<NL, "P", NL>>
    \o (IF alwaysThinkingEnabled THEN <<"o", "n">> ELSE <<"o", "f", "f">>)

\* renderBlockToString: header line with the type label, blank line, the
\* content, a final newline
renderBlockToString(block) ==
    <<(IF block.type = "thinking" THEN "C" ELSE "U"), NL, NL>> \o block.text \o <<NL>>

\* newBlocks.map(renderBlockToString).join('\n')
RECURSIVE JoinBlocks(_)
JoinBlocks(blocks) ==
    IF blocks = <<>> THEN <<>>
    ELSE IF Len(blocks) = 1 THEN renderBlockToString(blocks[1])
    ELSE renderBlockToString(blocks[1]) \o <<NL>> \o JoinBlocks(Tail(blocks))

\* the blocks the session files can hold
BlockUniverse ==
    { ThinkingBlock(<<"s">>, <<"1">>, "0", 1, <<"p">>),
      ThinkingBlock(<<"s">>, <<"1">>, "1", 2, <<"q">>),
      UserMessage(<<"s">>, <<"2">>, 2, <<"r">>) }

Batches == UNION { [1..n -> BlockUniverse] : n \in 1..MaxBatch }

\* process.stdout's <<columns, rows>> while the view is open
ViewDims == <<3, 2>>

\* the frame every hook builds from process.stdout and renderFooter()
ViewFrame(v, staticOutput) ==
    Frame(staticOutput, renderFooterToString(v.alwaysThinkingEnabled, v.columns),
          v.columns, v.rows)

\* the body of the useSessionServices effect: new store, manager and logger,
\* refs saved, listeners subscribed
SetupServices(v) ==
    LET g == v.gens + 1
    IN  [v EXCEPT !.gens = g,
                  !.stores = Append(v.stores, [NewStore EXCEPT !.listening = TRUE]),
                  !.managerSubs = Append(v.managerSubs, TRUE),
                  !.loggers = Append(v.loggers, NewLoggerState(ViewFrame(v, <<>>))),
                  !.cleared = Append(v.cleared, FALSE),
                  !.messageStoreRef = g,
                  !.sessionManagerRef = g,
                  !.renderLoggerRef = g]

\* the cleanup of the useSessionServices effect up to its await: the three
\* unsubscribes; manager.cleanup() is then awaited
CleanupServicesStart(v, g) ==
    [v EXCEPT !.stores[g].listening = FALSE,
              !.managerSubs[g] = FALSE,
              !.cleaning = v.cleaning \cup {g}]

\* the rest of that cleanup, once manager.cleanup() has resolved
CleanupServicesFinish(v, g) ==
    [v EXCEPT !.stores[g] = clearStore(v.stores[g]),
              !.loggers[g] = ClearLogger(v.loggers[g]),
              !.cleared[g] = TRUE,
              !.messageStoreRef = 0,
              !.sessionManagerRef = 0,
              !.renderLoggerRef = 0,
              !.cleaning = v.cleaning \ {g}]

\* a hook's renderLogger.render(frame) on logger g, with the operations
RenderOn(v, g, f) ==
    LET r == Render(options, v.loggers[g], f)
        clears == SelectSeq(r.ops, LAMBDA o : o.type = "clearTerminal")
    IN  [v |-> [v EXCEPT !.loggers[g] = r.st, !.clears = @ + Len(clears)],
         ops |-> r.ops]

\* the footer effect of useCustomRenderer
FooterEffect(v, lastOps) ==
    LET currentFooter == renderFooterToString(v.alwaysThinkingEnabled, v.columns)
    IN  IF v.loggerProp = 0 THEN [v |-> v, ops |-> lastOps]
        ELSE IF currentFooter = v.previousFooter THEN [v |-> v, ops |-> lastOps]
        ELSE RenderOn([v EXCEPT !.previousFooter = currentFooter],
                      v.loggerProp, ViewFrame(v, <<>>))

\* the new-messages effect of useCustomRenderer
MessagesEffect(v, lastOps) ==
    IF v.loggerProp = 0 THEN [v |-> v, ops |-> lastOps]
    ELSE IF Len(v.messageBlocks) > v.staticContentBlockCount
    THEN LET newBlocks == SubSeq(v.messageBlocks, v.staticContentBlockCount + 1,
                                 Len(v.messageBlocks))
             r == RenderOn(v, v.loggerProp, ViewFrame(v, JoinBlocks(newBlocks)))
         IN  [v |-> [r.v EXCEPT
                       !.staticContentBlockCount = Len(v.messageBlocks),
                       !.previousFooter =
                           renderFooterToString(v.alwaysThinkingEnabled, v.columns),
                       !.formatted = v.formatted \o newBlocks],
              ops |-> r.ops]
    ELSE [v |-> v, ops |-> lastOps]

\* StreamView just mounted: first render (no logger yet), then the effects:
\* services created, the two useCustomRenderer effects return at once
MountedView ==
    SetupServices(
        [open |-> TRUE,
         alwaysThinkingEnabled |-> FALSE,
         renderedThinking |-> FALSE,
         needsRender |-> FALSE,
         blocksDirty |-> FALSE,
         messageBlocks |-> <<>>,
         loggerProp |-> 0,
         messageStoreRef |-> 0, sessionManagerRef |-> 0, renderLoggerRef |-> 0,
         gens |-> 0,
         loggers |-> <<>>, cleared |-> <<>>, stores |-> <<>>, managerSubs |-> <<>>,
         cleaning |-> {},
         staticContentBlockCount |-> 0,
         previousFooter |-> <<>>,
         formatted |-> <<>>,
         columns |-> ViewDims[1], rows |-> ViewDims[2],
         prevTerminalWidthRef |-> ViewDims[1],
         prevTerminalRowsRef |-> ViewDims[2],
         resizes |-> 0, clears |-> 0])

InitView ==
    /\ \E tty \in BOOLEAN : options = [isTTY |-> tty, debug |-> FALSE]
    /\ view = MountedView
    /\ state = NewLoggerState(Frame(<<>>, <<>>, ViewDims[1], ViewDims[2]))
    /\ frame = state.prevFrame
    /\ prevArg = frame
    /\ pre = state
    /\ ops = <<>>
    /\ nCalls = 0
    /\ increments = <<>>
    /\ resized = FALSE
    /\ term = IdleTerm
    /\ tpc = "idle"
    /\ tin = IdleTin
    /\ lc = IdleLc /\ exec = IdleExec /\ ms = IdleMs
    /\ shown = NothingShown /\ sm = IdleSm /\ fp = IdleFp /\ LaterIdle

EngineIdle == UNCHANGED <<options, state, frame, prevArg, pre, nCalls,
                          increments, resized, term, tpc, tin, lc, exec, ms,
                          shown, sm, fp, later>>

\* the manager of generation g emits new messages: the subscription of
\* useSessionServices passes them to store.addBlocks, whose notification
\* sets the messageBlocks state
ManagerEmit(g, batch) ==
    /\ g \in 1..view.gens
    /\ view.managerSubs[g]
    /\ LET r == addBlocks(view.stores[g], batch)
           v == [view EXCEPT !.stores[g] = r.store]
       IN  view' = IF r.notify /\ r.store.listening
                   THEN [v EXCEPT !.messageBlocks = r.store.blocks,
                                  !.needsRender = TRUE,
                                  !.blocksDirty = TRUE]
                   ELSE v
    /\ UNCHANGED ops
    /\ EngineIdle

\* ~/.claude/settings.json changes: useClaudeSettings sets its state
SettingsChange(enabled) ==
    /\ view.open
    /\ view.gens < MaxGens
    /\ view' = [view EXCEPT !.alwaysThinkingEnabled = enabled, !.needsRender = TRUE]
    /\ UNCHANGED ops
    /\ EngineIdle

\* React renders StreamView after a state change and runs the effects
\* whose dependencies changed, in the order of the hooks
Commit ==
    /\ view.open
    /\ view.needsRender
    /\ LET footerChanged == view.alwaysThinkingEnabled # view.renderedThinking
           propChanged == view.renderLoggerRef # view.loggerProp
           v0 == [view EXCEPT !.needsRender = FALSE,
                              !.blocksDirty = FALSE,
                              !.renderedThinking = view.alwaysThinkingEnabled,
                              !.loggerProp = view.renderLoggerRef]
           v1 == IF footerChanged
                 THEN SetupServices(CleanupServicesStart(v0, v0.gens))
                 ELSE v0
           e2 == IF footerChanged \/ propChanged
                 THEN FooterEffect(v1, ops)
                 ELSE [v |-> v1, ops |-> ops]
           e3 == IF footerChanged \/ propChanged \/ view.blocksDirty
                 THEN MessagesEffect(e2.v, e2.ops)
                 ELSE e2
       IN  /\ view' = e3.v
           /\ ops' = e3.ops
    /\ EngineIdle

\* the awaited manager.cleanup() of generation g resolves
CleanupFinish(g) ==
    /\ g \in view.cleaning
    /\ view' = CleanupServicesFinish(view, g)
    /\ UNCHANGED ops
    /\ EngineIdle

\* back navigation or exit unmounts StreamView
CloseView ==
    /\ view.open
    /\ view' = [CleanupServicesStart(view, view.gens) EXCEPT !.open = FALSE]
    /\ UNCHANGED ops
    /\ EngineIdle

NextView ==
    \/ \E g \in 1..MaxGens, batch \in Batches : ManagerEmit(g, batch)
    \/ \E enabled \in BOOLEAN : SettingsChange(enabled)
    \/ Commit
    \/ \E g \in 1..MaxGens : CleanupFinish(g)
    \/ CloseView

SpecView == InitView /\ [][NextView]_vars

\* handleResize of useTerminalResize, registered by the last commit: its
\* closure has that render's renderLogger
handleResize(v, lastOps) ==
    IF v.loggerProp = 0 THEN [v |-> v, ops |-> lastOps]
    ELSE IF v.columns # v.prevTerminalWidthRef \/ v.rows # v.prevTerminalRowsRef
    THEN LET r == RenderOn(v, v.loggerProp, ViewFrame(v, <<>>))
         IN  [v |-> [r.v EXCEPT !.prevTerminalWidthRef = v.columns,
                                !.prevTerminalRowsRef = v.rows],
              ops |-> r.ops]
    ELSE [v |-> v, ops |-> lastOps]

\* the terminal takes another size: process.stdout has the new columns and
\* rows and emits 'resize'
TerminalResize(dm) ==
    /\ view.open
    /\ view.resizes < MaxResizes
    /\ dm # <<view.columns, view.rows>>
    /\ LET r == handleResize([view EXCEPT !.columns = dm[1], !.rows = dm[2],
                                         !.resizes = @ + 1], ops)
       IN  view' = r.v /\ ops' = r.ops
    /\ EngineIdle

\* the sizes the terminal takes while the view is open
ResizeDims == { ViewDims, <<4, 2>>, <<3, 3>> }

\* one service generation under resizes: messages arrive and are rendered
\* and the terminal changes its size
NextResize ==
    \/ \E batch \in Batches : ManagerEmit(1, batch)
    \/ Commit
    \/ \E dm \in ResizeDims : TerminalResize(dm)

SpecResize == InitView /\ [][NextResize]_vars

\* one service generation: messages arrive and are rendered, the settings
\* stay as they are
NextMessages ==
    \/ \E batch \in Batches : ManagerEmit(1, batch)
    \/ Commit

SpecMessages == InitView /\ [][NextMessages]_vars

\* ------------------------------------------------------ MessageStore alone
\* a thinking block, a user message and a second reading of the thinking
\* block, with the same key and a later timestamp
StoreBlocks ==
    { ThinkingBlock(<<"s">>, <<"1">>, "0", 1, <<"p">>),
      UserMessage(<<"s">>, <<"2">>, 2, <<"r">>),
      ThinkingBlock(<<"s">>, <<"1">>, "0", 3, <<"z">>) }
StoreBatches == UNION { [1..n -> StoreBlocks] : n \in 0..MaxBatch }

\* the callbacks that subscribe to the store
Callbacks == {"l1", "l2"}

\* notifyChange: every listener of the set is called once with the blocks
notifyChange(listeners, blocks) ==
    [invoked |-> [cb \in Callbacks |-> IF cb \in listeners THEN 1 ELSE 0],
     event |-> blocks]
NotNotified == [invoked |-> [cb \in Callbacks |-> 0], event |-> <<>>]

\* ms.listeners is the store's listener set; ms.unsubscribed holds the
\* callbacks whose unsubscribe function was called since they subscribed,
\* ms.dropped the blocks the last clear() removed
InitStore ==
    /\ EngineUnused
    /\ ms = [calls |-> 0, subs |-> 0, op |-> "new", store |-> NewStore,
             before |-> NewStore, batch |-> <<>>, result |-> FALSE,
             listeners |-> {}, unsubscribed |-> {}, notified |-> NotNotified,
             afterClear |-> FALSE, dropped |-> {}]
    /\ lc = IdleLc /\ exec = IdleExec
    /\ shown = NothingShown /\ sm = IdleSm /\ fp = IdleFp /\ LaterIdle

StoreOnly == UNCHANGED <<options, state, ops, frame, prevArg, pre, nCalls,
                         increments, resized, term, tpc, tin, view, lc, exec,
                         shown, sm, fp, later>>

\* store.addBlocks(batch) is called
AddBlocksCall(batch) ==
    /\ ms.calls < MaxAdds
    /\ LET r == addBlocks(ms.store, batch)
       IN  ms' = [ms EXCEPT
                    !.calls = ms.calls + 1, !.op = "add",
                    !.store = r.store, !.before = ms.store,
                    !.batch = batch, !.result = r.result,
                    !.notified = IF r.notify
                                 THEN notifyChange(ms.listeners, r.store.blocks)
                                 ELSE NotNotified,
                    !.afterClear = (ms.op = "clear")]
    /\ StoreOnly

\* store.clear() is called
ClearCall ==
    /\ ms.calls < MaxAdds
    /\ LET cleared == clearStore(ms.store)
       IN  ms' = [ms EXCEPT
                    !.calls = ms.calls + 1, !.op = "clear",
                    !.store = cleared, !.before = ms.store,
                    !.batch = <<>>, !.result = FALSE,
                    !.notified = notifyChange(ms.listeners, cleared.blocks),
                    !.afterClear = FALSE,
                    !.dropped = {ms.store.blocks[i] : i \in DOMAIN ms.store.blocks}]
    /\ StoreOnly

\* store.subscribe(cb) is called
SubscribeCall(cb) ==
    /\ ms.subs < MaxSubs
    /\ ms' = [ms EXCEPT !.subs = ms.subs + 1, !.op = "subscribe",
                        !.listeners = ms.listeners \cup {cb},
                        !.unsubscribed = ms.unsubscribed \ {cb},
                        !.notified = NotNotified]
    /\ StoreOnly

\* the function subscribe(cb) returned is called
UnsubscribeCall(cb) ==
    /\ ms.subs < MaxSubs
    /\ cb \in ms.listeners \cup ms.unsubscribed
    /\ ms' = [ms EXCEPT !.subs = ms.subs + 1, !.op = "unsubscribe",
                        !.listeners = ms.listeners \ {cb},
                        !.unsubscribed = ms.unsubscribed \cup {cb},
                        !.notified = NotNotified]
    /\ StoreOnly

NextStore ==
    \/ \E batch \in StoreBatches : AddBlocksCall(batch)
    \/ ClearCall
    \/ \E cb \in Callbacks : SubscribeCall(cb)
    \/ \E cb \in Callbacks : UnsubscribeCall(cb)

SpecStore == InitStore /\ [][NextStore]_vars

\* ------------------------------------------------------- SessionManager
MAX_BLOCKS_INITAL_RENDER == 200

\* the callbacks that subscribe, the session files the manager is built
\* with, and the file a new session appears in
MsgCallbacks == {"m1", "m2"}
ErrCallbacks == {"e1", "e2"}
SessionPaths == <<"a.jsonl", "b.jsonl">>
SessionNames == <<"session a", "session b">>
NewSessionPath == "c.jsonl"
AllPaths == {"a.jsonl", "b.jsonl", "c.jsonl"}

SessionFile(i) ==
    [projectName |-> "project-1", sessionPath |-> SessionPaths[i],
     sessionName |-> SessionNames[i]]

\* what the parser makes of a session file: parseFileTail rejects for an
\* unreadable file and resolves with the blocks of the others (none, two
\* that are not in timestamp order, or one more than the initial cap)
FileShapes == {"unreadable", "empty", "pair", "long"}
ParsedBlock(path, k, timestamp) ==
    [sessionId |-> path, messageId |-> k, timestamp |-> timestamp]
TailBlocks(shape, path) ==
    CASE shape = "pair" -> <<ParsedBlock(path, 1, 150), ParsedBlock(path, 2, 3)>>
      [] shape = "long" -> [k \in 1..(MAX_BLOCKS_INITAL_RENDER + 1) |->
                               ParsedBlock(path, k, k)]
      [] OTHER -> <<>>

\* { ...block, projectName, sessionName, sessionPath }
DisplayBlock(block, projectName, sessionName, sessionPath) ==
    [sessionId |-> block.sessionId, messageId |-> block.messageId,
     timestamp |-> block.timestamp, projectName |-> projectName,
     sessionName |-> sessionName, sessionPath |-> sessionPath]
DisplayBlocks(blocks, projectName, sessionName, sessionPath) ==
    [k \in DOMAIN blocks |->
        DisplayBlock(blocks[k], projectName, sessionName, sessionPath)]

\* no watcher event is being handled; the manager when the notifications of
\* the step before are forgotten
IdleHandler ==
    [pc |-> "idle", kind |-> "", path |-> "", sessionName |-> "", blocks |-> <<>>]
Quiet(m) == [m EXCEPT !.last = <<>>]

\* new SessionManager(sessionFiles, projectName, projectPath); disk is the
\* shape of each file the manager may come to read
NewManager(n, disk) ==
    [sessionFiles |-> [i \in 1..n |-> SessionFile(i)],
     sessionFilesMap |-> [p \in AllPaths |->
                            IF \E i \in 1..n : SessionPaths[i] = p
                            THEN SessionNames[CHOOSE i \in 1..n : SessionPaths[i] = p]
                            ELSE "absent"],
     watcher |-> 0,
     newMessagesListeners |-> {},
     errorListeners |-> {},
     disk |-> disk,
     created |-> 0,
     open |-> {},
     watched |-> {},
     init |-> [pc |-> "idle", i |-> 0, messages |-> <<>>],
     cl |-> [pc |-> "idle", calls |-> 0, resolved |-> 0, rejected |-> 0],
     h |-> IdleHandler,
     changes |-> 0,
     log |-> <<>>,
     last |-> <<>>]

\* notifyNewMessages and notifyError: every listener of the set is called
\* once with the event
notifyNewMessages(listeners, event) ==
    [kind |-> "messages", event |-> event,
     invoked |-> [cb \in MsgCallbacks \cup ErrCallbacks |->
                     IF cb \in listeners THEN 1 ELSE 0]]
notifyError(listeners, event) ==
    [kind |-> "error", event |-> event,
     invoked |-> [cb \in MsgCallbacks \cup ErrCallbacks |->
                     IF cb \in listeners THEN 1 ELSE 0]]

\* the manager after a notification of initialize, which is logged with the
\* listeners the manager held, the number of watchers it had created and
\* whether a cleanup had resolved
Notified(m, n) ==
    [m EXCEPT !.log = Append(@,
        [kind |-> n.kind, event |-> n.event, invoked |-> n.invoked,
         listeners |-> IF n.kind = "messages" THEN m.newMessagesListeners
                       ELSE m.errorListeners,
         watchers |-> m.created,
         cleaned |-> m.cl.resolved > 0])]

\* the same for a notification of a watcher event's handler: those of the
\* last step are kept
Delivered(m, n) ==
    [m EXCEPT !.last = Append(@,
        [kind |-> n.kind, event |-> n.event, invoked |-> n.invoked,
         listeners |-> IF n.kind = "messages" THEN m.newMessagesListeners
                       ELSE m.errorListeners,
         watchers |-> m.created,
         cleaned |-> m.cl.resolved > 0])]

ErrorEvent(type, filePath) ==
    [type |-> type, filePath |-> filePath, recoverable |-> TRUE]

\* mutant of the cap: the oldest messages are kept
capMessages_KeepsOldest(messages) ==
    IF Len(messages) > MAX_BLOCKS_INITAL_RENDER
    THEN SubSeq(messages, 1, MAX_BLOCKS_INITAL_RENDER)
    ELSE messages

\* messages.slice(-MAX_BLOCKS_INITAL_RENDER) when there are more
capMessages(messages) ==
    IF Len(messages) > MAX_BLOCKS_INITAL_RENDER
    THEN SubSeq(messages, Len(messages) - MAX_BLOCKS_INITAL_RENDER + 1, Len(messages))
    ELSE messages

\* startWatching: a SessionWatcher on the session files
startWatching(m) ==
    [m EXCEPT !.created = @ + 1,
              !.watcher = m.created + 1,
              !.open = @ \cup {m.created + 1},
              !.watched = {m.sessionFiles[i].sessionPath : i \in DOMAIN m.sessionFiles}]

\* mutant of the loop body of initialize: a failing file also loses the
\* messages collected before it
initializeFile_DropsCollected(m, i, outcome) ==
    LET f == m.sessionFiles[i]
    IN  IF outcome.ok
        THEN [m EXCEPT !.init.messages = @ \o
                 DisplayBlocks(outcome.blocks, f.projectName, f.sessionName,
                               f.sessionPath)]
        ELSE [Notified(m, notifyError(m.errorListeners,
                                      ErrorEvent("parse-error", f.sessionPath)))
                 EXCEPT !.init.messages = <<>>]

\* the loop body of initialize for session file i, once parseFileTail has
\* settled
initializeFile(m, i, outcome) ==
    LET f == m.sessionFiles[i]
    IN  IF outcome.ok
        THEN [m EXCEPT !.init.messages = @ \o
                 DisplayBlocks(outcome.blocks, f.projectName, f.sessionName,
                               f.sessionPath)]
        ELSE Notified(m, notifyError(m.errorListeners,
                                     ErrorEvent("parse-error", f.sessionPath)))

\* messages.sort((a, b) => time(a) - time(b)); Array.prototype.sort is stable
sortMessages(messages) ==
    SortSeq(messages, LAMBDA a, b : a.timestamp < b.timestamp)

\* initialize after its loop: sort, cap, emit, start watching
finishInitialize(m) ==
    LET messages == m.init.messages
        emitted ==
            IF Len(messages) > 0
            THEN Notified(m, notifyNewMessages(m.newMessagesListeners,
                     [messages |-> capMessages(sortMessages(messages)),
                      source |-> "initial"]))
            ELSE m
    IN  [startWatching(emitted) EXCEPT !.init.pc = "done"]

\* mutant of cleanup: the listeners stay registered
finishCleanup_KeepsListeners(m) ==
    [m EXCEPT !.watcher = 0,
              !.sessionFilesMap = [p \in AllPaths |-> "absent"],
              !.cl.pc = "idle",
              !.cl.resolved = @ + 1]

\* cleanup from the point where the watcher, if any, has been closed
finishCleanup(m) ==
    [m EXCEPT !.watcher = 0,
              !.newMessagesListeners = {},
              !.errorListeners = {},
              !.sessionFilesMap = [p \in AllPaths |-> "absent"],
              !.cl.pc = "idle",
              !.cl.resolved = @ + 1]

\* the outcome of parseFileTail or parseNewLines as the manager sees it
ParseOutcome(shape, path) ==
    [ok |-> shape # "unreadable", blocks |-> TailBlocks(shape, path)]

ManagerOnly ==
    UNCHANGED <<options, state, ops, frame, prevArg, pre, nCalls, increments,
                resized, term, tpc, tin, view, lc, exec, ms, shown, fp, later>>

\* a manager of one or two session files; the file found later is empty and
\* at most the first file holds more blocks than the initial cap
InitManager ==
    /\ EngineUnused
    /\ lc = IdleLc /\ exec = IdleExec /\ ms = IdleMs
    /\ shown = NothingShown /\ fp = IdleFp /\ LaterIdle
    /\ \E n \in 1..2, disk \in [AllPaths -> FileShapes] :
          /\ disk[NewSessionPath] = "empty"
          /\ n = 1 => disk[SessionPaths[2]] = "empty"
          /\ disk[SessionPaths[2]] # "long"
          /\ sm = NewManager(n, disk)

\* manager.onNewMessages(cb) and manager.onError(cb), called as
\* useSessionServices calls them: before initialize
OnNewMessages(cb) ==
    /\ sm.init.pc = "idle" /\ sm.cl.calls = 0
    /\ cb \notin sm.newMessagesListeners
    /\ sm' = [Quiet(sm) EXCEPT !.newMessagesListeners = @ \cup {cb}]
    /\ ManagerOnly

OnError(cb) ==
    /\ sm.init.pc = "idle" /\ sm.cl.calls = 0
    /\ cb \notin sm.errorListeners
    /\ sm' = [Quiet(sm) EXCEPT !.errorListeners = @ \cup {cb}]
    /\ ManagerOnly

\* the function onNewMessages or onError returned is called
Unsubscribe(cb) ==
    /\ cb \in sm.newMessagesListeners \cup sm.errorListeners
    /\ sm' = [Quiet(sm) EXCEPT !.newMessagesListeners = @ \ {cb},
                               !.errorListeners = @ \ {cb}]
    /\ ManagerOnly

\* manager.initialize() is called and runs to its first await
Initialize ==
    /\ sm.init.pc = "idle"
    /\ sm' = [Quiet(sm) EXCEPT
                !.init = [pc |-> "parseFileTail", i |-> 1, messages |-> <<>>]]
    /\ ManagerOnly

\* the parseFileTail that initialize awaits settles; initialize runs to its
\* next await or to its end
ParseFileTailSettles ==
    /\ sm.init.pc = "parseFileTail"
    /\ LET i == sm.init.i
           path == sm.sessionFiles[i].sessionPath
           m == initializeFile(Quiet(sm), i, ParseOutcome(sm.disk[path], path))
       IN  sm' = IF i < Len(sm.sessionFiles)
                 THEN [m EXCEPT !.init.i = i + 1]
                 ELSE finishInitialize(m)
    /\ ManagerOnly

\* manager.cleanup() is called and runs to its await of watcher.close(), or
\* to its end when there is no watcher
Cleanup ==
    /\ sm.cl.pc = "idle"
    /\ sm.cl.calls < MaxCleanups
    /\ sm' = IF sm.watcher # 0
             THEN [Quiet(sm) EXCEPT !.cl.pc = "close", !.cl.calls = @ + 1]
             ELSE finishCleanup([Quiet(sm) EXCEPT !.cl.calls = @ + 1])
    /\ ManagerOnly

\* watcher.close() settles, with or without an error; cleanup runs to its end
WatcherCloseSettles ==
    /\ sm.cl.pc = "close"
    /\ \E closed \in BOOLEAN :
          sm' = finishCleanup([Quiet(sm) EXCEPT
                                 !.open = IF closed THEN @ \ {sm.watcher} ELSE @])
    /\ ManagerOnly

\* the watcher reports a change of a watched file: handleFileChange runs to
\* its first await
FileChanged ==
    /\ sm.open # {}
    /\ sm.h.pc = "idle"
    /\ sm.changes < MaxChanges
    /\ \E path \in sm.watched :
          sm' = [Quiet(sm) EXCEPT
                   !.changes = @ + 1,
                   !.h = [pc |-> IF sm.sessionFilesMap[path] = "absent"
                                 THEN "registerNewSession" ELSE "parseNewLines",
                          kind |-> "change", path |-> path,
                          sessionName |-> sm.sessionFilesMap[path],
                          blocks |-> <<>>]]
    /\ ManagerOnly

\* the watcher reports a new session file (only when more than one session
\* is watched): handleNewSession runs to its first await
NewSessionFound ==
    /\ sm.open # {}
    /\ Len(sm.sessionFiles) > 1
    /\ sm.h.pc = "idle"
    /\ sm.changes < MaxChanges
    /\ NewSessionPath \notin sm.watched
    /\ sm' = [Quiet(sm) EXCEPT
                !.changes = @ + 1,
                !.h = [pc |-> "registerNewSession", kind |-> "new-session",
                       path |-> NewSessionPath, sessionName |-> "absent",
                       blocks |-> <<>>]]
    /\ ManagerOnly

\* registerNewSession's extractSessionInfo settles
RegisterSettles ==
    /\ sm.h.pc = "registerNewSession"
    /\ \E extracted \in BOOLEAN :
          sm' = IF extracted
                THEN [Quiet(sm) EXCEPT
                        !.sessionFilesMap[sm.h.path] = "new session",
                        !.watched = IF sm.watcher # 0 THEN @ \cup {sm.h.path} ELSE @,
                        !.h.sessionName = "new session",
                        !.h.pc = IF sm.h.kind = "change" THEN "parseNewLines"
                                 ELSE "parseFileTail"]
                ELSE [Delivered(Quiet(sm), notifyError(sm.errorListeners,
                          ErrorEvent("registration-failed", sm.h.path)))
                        EXCEPT !.h = IdleHandler]
    /\ ManagerOnly

\* the handler's notification of the blocks it parsed, if any
notifyParsed(m) ==
    IF Len(m.h.blocks) > 0
    THEN Delivered(m, notifyNewMessages(m.newMessagesListeners,
             [messages |-> DisplayBlocks(m.h.blocks, "project-1",
                                         m.h.sessionName, m.h.path),
              source |-> m.h.kind]))
    ELSE m

\* the handler's parseNewLines or parseFileTail settles; handleFileChange
\* goes on to extract the session's name again when the blocks call for it
HandlerParseSettles ==
    /\ sm.h.pc \in {"parseNewLines", "parseFileTail"}
    /\ \E shape \in {"unreadable", "empty", "pair"}, shouldReExtract \in BOOLEAN :
          LET outcome == ParseOutcome(shape, sm.h.path)
              m == [Quiet(sm) EXCEPT !.h.blocks = outcome.blocks]
          IN  sm' = IF ~outcome.ok
                    THEN [Delivered(Quiet(sm), notifyError(sm.errorListeners,
                              ErrorEvent("parse-error", sm.h.path)))
                            EXCEPT !.h = IdleHandler]
                    ELSE IF sm.h.kind = "change" /\ shouldReExtract
                    THEN [m EXCEPT !.h.pc = "extractSessionInfo"]
                    ELSE [notifyParsed(m) EXCEPT !.h = IdleHandler]
    /\ ManagerOnly

\* handleFileChange's extractSessionInfo settles
ExtractSettles ==
    /\ sm.h.pc = "extractSessionInfo"
    /\ \E result \in {"failed", "same", "renamed"} :
          LET m == IF result = "failed"
                   THEN Delivered(Quiet(sm), notifyError(sm.errorListeners,
                            ErrorEvent("extraction-failed", sm.h.path)))
                   ELSE IF result = "renamed"
                   THEN [Quiet(sm) EXCEPT
                           !.sessionFilesMap[sm.h.path] = "renamed session",
                           !.h.sessionName = "renamed session"]
                   ELSE Quiet(sm)
          IN  sm' = [notifyParsed(m) EXCEPT !.h = IdleHandler]
    /\ ManagerOnly

NextManager ==
    \/ \E cb \in MsgCallbacks : OnNewMessages(cb)
    \/ \E cb \in ErrCallbacks : OnError(cb)
    \/ \E cb \in MsgCallbacks \cup ErrCallbacks : Unsubscribe(cb)
    \/ Initialize
    \/ ParseFileTailSettles
    \/ Cleanup
    \/ WatcherCloseSettles
    \/ FileChanged
    \/ NewSessionFound
    \/ RegisterSettles
    \/ HandlerParseSettles
    \/ ExtractSettles

SpecManager == InitManager /\ [][NextManager]_vars

\* ------------------------------------------------ the parser's positions
POSITION_CACHE_SIZE == 100

\* LRUCache: the Map in insertion order as a sequence of entries; Undefined
\* stands for the undefined of a missing key
Undefined == [undefined |-> TRUE]
lruHas(cache, key) == \E i \in DOMAIN cache : cache[i].key = key
lruValue(cache, key) ==
    IF lruHas(cache, key)
    THEN [undefined |-> FALSE,
          value |-> cache[CHOOSE i \in DOMAIN cache : cache[i].key = key].value]
    ELSE Undefined
lruDelete(cache, key) == SelectSeq(cache, LAMBDA e : e.key # key)

lruGet_NoMove(cache, key) ==
    [value |-> lruValue(cache, key), cache |-> cache]

\* LRUCache.get: a key that is found moves to the end
lruGet(cache, key) ==
    LET v == lruValue(cache, key)
    IN  [value |-> v,
         cache |-> IF v.undefined THEN cache
                   ELSE Append(lruDelete(cache, key), [key |-> key, value |-> v.value])]

\* LRUCache.set: the key goes to the end; the first key is evicted when the
\* Map is over its size
lruSet(cache, key, value) ==
    LET added == Append(lruDelete(cache, key), [key |-> key, value |-> value])
    IN  IF Len(added) > POSITION_CACHE_SIZE THEN Tail(added) ELSE added

\* a JSONL file is a sequence of bytes; the entry of line k that gives one
\* block is written {k}; every other line gives none
Digit(k) == <<"1", "2", "3", "4", "5", "6", "7", "8", "9">>[k]
EntryLine(k) == <<"{", Digit(k), "}", NL>>
IsEntry(line) == Len(line) = 3 /\ line[1] = "{" /\ line[3] = "}"

\* the lines readline emits for the bytes of a stream: a last line without
\* its newline is emitted too, an empty rest is not
ReadLines(bytes) ==
    LET parts == SplitNL(bytes)
    IN  IF parts[Len(parts)] = <<>> THEN SubSeq(parts, 1, Len(parts) - 1) ELSE parts

RECURSIVE BytesConsumed(_)
BytesConsumed(lines) ==
    IF lines = <<>> THEN 0 ELSE Len(Head(lines)) + 1 + BytesConsumed(Tail(lines))

\* the blocks of the lines: blank lines and lines that are no entry are
\* skipped
RECURSIVE BlocksOfLines(_)
BlocksOfLines(lines) ==
    IF lines = <<>> THEN <<>>
    ELSE (IF Truthy(Trim(Head(lines))) /\ IsEntry(Head(lines))
          THEN <<Head(lines)[2]>> ELSE <<>>) \o BlocksOfLines(Tail(lines))

FromPosition(content, position) == SubSeq(content, position + 1, Len(content))

\* parseNewLines(filePath) on a file of the given content
parseNewLines(cache, content, filePath) ==
    LET got == lruGet(cache, filePath)
        lastPosition == IF got.value.undefined THEN 0 ELSE got.value.value
        lines == ReadLines(FromPosition(content, lastPosition))
        currentPosition == lastPosition + BytesConsumed(lines)
    IN  [cache |-> lruSet(got.cache, filePath, currentPosition),
         blocks |-> BlocksOfLines(lines), start |-> lastPosition]

\* parseFileTail(filePath, maxBytes)
parseFileTail(cache, content, filePath, maxBytes) ==
    LET fileSize == Len(content)
        startPosition == fileSize - maxBytes
        lines == ReadLines(FromPosition(content, startPosition))
        currentPosition == startPosition + BytesConsumed(lines)
    IN  IF fileSize <= maxBytes
        THEN parseNewLines(lruDelete(cache, filePath), content, filePath)
        ELSE [cache |-> lruSet(cache, filePath, currentPosition),
              blocks |-> IF lines = <<>> THEN <<>> ELSE BlocksOfLines(Tail(lines)),
              start |-> startPosition]

\* one session file that grows by whole lines (key 1 of the cache) among
\* other session files (keys 2, 3, ...), which are empty
SessionFileKey == <<1>>[1]
TailSizes == {6, 8, 100}

ParserOnly ==
    UNCHANGED <<options, state, ops, frame, prevArg, pre, nCalls, increments,
                resized, term, tpc, tin, view, lc, exec, ms, shown, sm,
                later>>

\* fp.content  the bytes of the session file, fp.lines the number of lines
\*             appended to it
\* fp.cache    the module's filePositions
\* fp.seen     the number of lines the file had when the last call on it ended
\* fp.call     the last call: function, file, the lines seen before it, the
\*             lines and size of the file, the position it read from, the
\*             position it recorded and the blocks it returned
InitParser ==
    /\ EngineUnused
    /\ lc = IdleLc /\ exec = IdleExec /\ ms = IdleMs
    /\ shown = NothingShown /\ sm = IdleSm /\ LaterIdle
    /\ fp = [calls |-> 0, content |-> <<>>, lines |-> 0, cache |-> <<>>,
             seen |-> 0, others |-> 0,
             call |-> [fn |-> "none", file |-> 0, seenBefore |-> 0,
                       lines |-> 0, size |-> 0, start |-> 0,
                       position |-> Undefined, blocks |-> <<>>]]

\* the writer appends one entry line to the session file
AppendLine ==
    /\ fp.lines < MaxLines
    /\ fp' = [fp EXCEPT !.content = @ \o EntryLine(fp.lines + 1),
                        !.lines = @ + 1]
    /\ ParserOnly

\* parseNewLines(sessionFile) runs from call to resolution
ParseNewLinesCall ==
    /\ fp.calls < MaxParses
    /\ LET r == parseNewLines(fp.cache, fp.content, SessionFileKey)
       IN  fp' = [fp EXCEPT
                    !.calls = @ + 1,
                    !.cache = r.cache,
                    !.seen = fp.lines,
                    !.call = [fn |-> "parseNewLines", file |-> SessionFileKey,
                              seenBefore |-> fp.seen, lines |-> fp.lines,
                              size |-> Len(fp.content), start |-> r.start,
                              position |-> lruValue(r.cache, SessionFileKey),
                              blocks |-> r.blocks]]
    /\ ParserOnly

\* parseFileTail(sessionFile, maxBytes) runs from call to resolution
ParseFileTailCall ==
    /\ fp.calls < MaxParses
    /\ \E maxBytes \in TailSizes :
          LET r == parseFileTail(fp.cache, fp.content, SessionFileKey, maxBytes)
          IN  fp' = [fp EXCEPT
                       !.calls = @ + 1,
                       !.cache = r.cache,
                       !.seen = fp.lines,
                       !.call = [fn |-> "parseFileTail", file |-> SessionFileKey,
                                 seenBefore |-> fp.seen, lines |-> fp.lines,
                                 size |-> Len(fp.content), start |-> r.start,
                                 position |-> lruValue(r.cache, SessionFileKey),
                                 blocks |-> r.blocks]]
    /\ ParserOnly

\* the parser is called on the next of the other session files, as
\* initialize does for every session of a project
ParseOtherFile ==
    /\ fp.calls > 0
    /\ fp.others < MaxOthers
    /\ LET key == fp.others + 2
           r == parseFileTail(fp.cache, <<>>, key, 100)
       IN  fp' = [fp EXCEPT
                    !.others = @ + 1,
                    !.cache = r.cache,
                    !.call = [fn |-> "parseFileTail", file |-> key,
                              seenBefore |-> 0, lines |-> 0, size |-> 0,
                              start |-> r.start,
                              position |-> lruValue(r.cache, key),
                              blocks |-> r.blocks]]
    /\ ParserOnly

NextParser ==
    \/ AppendLine
    \/ ParseNewLinesCall
    \/ ParseFileTailCall
    \/ ParseOtherFile

SpecParser == InitParser /\ [][NextParser]_vars

\* ------------------------------------------- a session file being written
\* pw.content   the bytes of the session file
\* pw.lines     the entry lines the writer has begun, pw.rest the bytes of
\*              the last of them it has not written yet
\* pw.cache     the module's filePositions
\* pw.calls     the parseNewLines calls made, pw.fresh whether nothing was
\*              written since the last
\* pw.returned  the blocks the calls have returned
\* pw.position  what the last call recorded, pw.complete the bytes of the
\*              file up to its last newline when that call read it
InitWrites ==
    /\ EngineUnused
    /\ lc = IdleLc /\ exec = IdleExec /\ ms = IdleMs
    /\ shown = NothingShown /\ sm = IdleSm /\ fp = IdleFp
    /\ sw = IdleSw /\ lru = IdleLru /\ app = IdleApp
    /\ pw = [content |-> <<>>, lines |-> 0, rest |-> <<>>, cache |-> <<>>,
             calls |-> 0, fresh |-> FALSE, returned |-> {},
             position |-> 0, complete |-> 0, blocks |-> <<>>]

WritesOnly ==
    UNCHANGED <<options, state, ops, frame, prevArg, pre, nCalls, increments,
                resized, term, tpc, tin, view, lc, exec, ms, shown, sm, fp,
                sw, lru, app>>

\* the bytes of the lines of a file that have their newline
RECURSIVE CompleteBytes(_)
CompleteBytes(content) ==
    IF content = <<>> THEN 0
    ELSE IF content[Len(content)] = NL THEN Len(content)
    ELSE CompleteBytes(SubSeq(content, 1, Len(content) - 1))

\* the writer appends the next n bytes of the entry line it is writing, or
\* of the next entry line
WriteChunk(n) ==
    /\ pw.rest # <<>> \/ pw.lines < MaxLines
    /\ LET line == IF pw.rest = <<>> THEN EntryLine(pw.lines + 1) ELSE pw.rest
       IN  /\ n \in 1..Len(line)
           /\ pw' = [pw EXCEPT
                        !.content = @ \o SubSeq(line, 1, n),
                        !.rest = SubSeq(line, n + 1, Len(line)),
                        !.lines = IF pw.rest = <<>> THEN @ + 1 ELSE @,
                        !.fresh = FALSE]
    /\ WritesOnly

\* parseNewLines(sessionFile) runs from call to resolution on the file as it
\* is
ParseWhileWritten ==
    /\ pw.calls < MaxReads
    /\ LET r == parseNewLines(pw.cache, pw.content, SessionFileKey)
       IN  pw' = [pw EXCEPT
                    !.calls = @ + 1,
                    !.fresh = TRUE,
                    !.cache = r.cache,
                    !.returned = @ \cup { r.blocks[i] : i \in DOMAIN r.blocks },
                    !.position = lruValue(r.cache, SessionFileKey).value,
                    !.complete = CompleteBytes(pw.content),
                    !.blocks = r.blocks]
    /\ WritesOnly

NextWrites ==
    \/ \E n \in 1..4 : WriteChunk(n)
    \/ ParseWhileWritten

SpecWrites == InitWrites /\ [][NextWrites]_vars

\* ------------------------------------------------------- SessionWatcher
FILE_OPERATION_QUEUE_CONCURRENCY == 1

\* a path is its name followed by its extension
WatcherPaths ==
    { <<"a", ".jsonl">>, <<"b", ".jsonl">>, <<"c", ".jsonl">>, <<"notes", ".txt">> }
InitialFiles == { {<<"a", ".jsonl">>}, {<<"a", ".jsonl">>, <<"b", ".jsonl">>} }

\* changedPath.endsWith('.jsonl')
endsWithJsonl(path) == path[Len(path)] = ".jsonl"

NoTask == [kind |-> "none"]

\* new SessionWatcher(projectPath, initialFiles, callbacks) as startWatching
\* builds it; sw.known is the manager's sessionFilesMap
NewWatcher(initialFiles) ==
    [initialFiles |-> initialFiles, watchedFiles |-> initialFiles,
     hasOnNewSession |-> Cardinality(initialFiles) # 1,
     known |-> initialFiles,
     chokidar |-> "open", queue |-> <<>>, running |-> NoTask,
     close |-> "idle", events |-> <<>>, calls |-> <<>>, handlers |-> <<>>,
     added |-> {}]

\* handlers of the manager that have started and not finished
Unfinished(w) == {i \in DOMAIN w.handlers : w.handlers[i].pc # "done"}

\* the queue takes a task: it runs at once while fewer than
\* FILE_OPERATION_QUEUE_CONCURRENCY tasks run, and waits otherwise
queueAdd(w, task) == [w EXCEPT !.queue = Append(@, task)]

onChokidarChange_AnyJsonl(w, changedPath) ==
    LET e == [kind |-> "change", path |-> changedPath,
              watched |-> changedPath \in w.watchedFiles]
        seen == [w EXCEPT !.events = Append(@, e)]
    IN  IF ~endsWithJsonl(changedPath) THEN seen
        ELSE queueAdd(seen, [kind |-> "change", path |-> changedPath,
                             ev |-> Len(seen.events)])

\* the 'change' listener of the directory watcher
onChokidarChange(w, changedPath) ==
    LET e == [kind |-> "change", path |-> changedPath,
              watched |-> changedPath \in w.watchedFiles]
        seen == [w EXCEPT !.events = Append(@, e)]
    IN  IF ~endsWithJsonl(changedPath) \/ changedPath \notin w.watchedFiles
        THEN seen
        ELSE queueAdd(seen, [kind |-> "change", path |-> changedPath,
                             ev |-> Len(seen.events)])

\* the 'add' listener of the directory watcher
onChokidarAdd(w, newFilePath) ==
    LET e == [kind |-> "add", path |-> newFilePath,
              watched |-> newFilePath \in w.watchedFiles]
        seen == [w EXCEPT !.events = Append(@, e)]
    IN  IF ~endsWithJsonl(newFilePath) THEN seen
        ELSE IF newFilePath \in w.watchedFiles THEN seen
        ELSE queueAdd(seen, [kind |-> "add", path |-> newFilePath,
                             ev |-> Len(seen.events)])

\* a callback of the manager is called: the manager's handler runs to its
\* first await and the callback returns its promise
callManager(w, cb, task) ==
    [w EXCEPT
       !.calls = Append(@, [cb |-> cb, path |-> task.path, ev |-> task.ev,
                            unfinished |-> Cardinality(Unfinished(w))]),
       !.handlers = Append(@,
           [kind |-> IF cb = "onChange" THEN "change" ELSE "new-session",
            path |-> task.path,
            pc |-> IF cb = "onChange" /\ task.path \in w.known
                   THEN "parseNewLines" ELSE "registerNewSession"])]

\* SessionWatcher.addFile
addFile(w, filePath) ==
    [w EXCEPT !.watchedFiles = @ \cup {filePath}, !.added = @ \cup {filePath}]

WatcherOnly ==
    UNCHANGED <<options, state, ops, frame, prevArg, pre, nCalls, increments,
                resized, term, tpc, tin, view, lc, exec, ms, shown, sm, fp,
                lru, app, pw>>

InitWatcher ==
    /\ EngineUnused
    /\ lc = IdleLc /\ exec = IdleExec /\ ms = IdleMs
    /\ shown = NothingShown /\ sm = IdleSm /\ fp = IdleFp
    /\ lru = IdleLru /\ app = IdleApp
    /\ pw = IdlePw
    /\ \E initialFiles \in InitialFiles : sw = NewWatcher(initialFiles)

\* the directory watcher reports a change of a file
ChokidarChange(path) ==
    /\ sw.chokidar = "open"
    /\ Len(sw.events) < MaxEvents
    /\ sw' = onChokidarChange(sw, path)
    /\ WatcherOnly

\* the directory watcher reports a new file
ChokidarAdd(path) ==
    /\ sw.chokidar = "open"
    /\ Len(sw.events) < MaxEvents
    /\ sw' = onChokidarAdd(sw, path)
    /\ WatcherOnly

\* the queue starts its next task. A 'change' task calls callbacks.onChange
\* and is over; an 'add' task runs handleNewFile to its await of
\* extractSessionInfo, or is over when there is no onNewSession callback
QueueRunsTask ==
    /\ sw.queue # <<>>
    /\ (IF sw.running = NoTask THEN 0 ELSE 1) < FILE_OPERATION_QUEUE_CONCURRENCY
    /\ LET task == Head(sw.queue)
           w == [sw EXCEPT !.queue = Tail(@)]
       IN  sw' = IF task.kind = "change" THEN callManager(w, "onChange", task)
                 ELSE IF w.hasOnNewSession THEN [w EXCEPT !.running = task]
                 ELSE w
    /\ WatcherOnly

\* handleNewFile's extractSessionInfo settles: callbacks.onNewSession is
\* called when it succeeded, and the task is over
NewFileExtractSettles ==
    /\ sw.running # NoTask
    /\ \E extracted \in BOOLEAN :
          LET w == [sw EXCEPT !.running = NoTask]
          IN  sw' = IF extracted THEN callManager(w, "onNewSession", sw.running)
                    ELSE w
    /\ WatcherOnly

\* an await of a handler of the manager settles: registerNewSession's
\* extractSessionInfo, then parseNewLines or parseFileTail, then for a
\* change the second extractSessionInfo when the blocks call for it
ManagerHandlerSettles(i) ==
    /\ i \in Unfinished(sw)
    /\ \E ok \in BOOLEAN, shouldReExtract \in BOOLEAN :
          LET h == sw.handlers[i]
          IN  sw' =
                IF ~ok THEN [sw EXCEPT !.handlers[i].pc = "done"]
                ELSE IF h.pc = "registerNewSession"
                THEN LET w == [sw EXCEPT
                                 !.known = @ \cup {h.path},
                                 !.handlers[i].pc =
                                     IF h.kind = "change" THEN "parseNewLines"
                                     ELSE "parseFileTail"]
                     IN  IF sw.close # "closed" THEN addFile(w, h.path) ELSE w
                ELSE IF h.pc = "parseNewLines" /\ shouldReExtract
                THEN [sw EXCEPT !.handlers[i].pc = "extractSessionInfo"]
                ELSE [sw EXCEPT !.handlers[i].pc = "done"]
    /\ WatcherOnly

\* SessionWatcher.close() is called and runs to its await of the directory
\* watcher's close()
WatcherClose ==
    /\ sw.close = "idle"
    /\ sw' = [sw EXCEPT !.close = "watcher.close"]
    /\ WatcherOnly

\* the directory watcher's close() settles: no event follows; close() runs
\* to its await of queue.onIdle()
ChokidarCloseSettles ==
    /\ sw.close = "watcher.close"
    /\ sw' = [sw EXCEPT !.chokidar = "closed", !.close = "onIdle"]
    /\ WatcherOnly

\* queue.onIdle() settles, the queue being empty with no task running;
\* close() clears the watched set and returns, and the manager drops the
\* watcher and clears its map
QueueIdleSettles ==
    /\ sw.close = "onIdle"
    /\ sw.queue = <<>> /\ sw.running = NoTask
    /\ sw' = [sw EXCEPT !.watchedFiles = {}, !.known = {}, !.close = "closed"]
    /\ WatcherOnly

NextWatcher ==
    \/ \E path \in WatcherPaths : ChokidarChange(path)
    \/ \E path \in WatcherPaths : ChokidarAdd(path)
    \/ QueueRunsTask
    \/ NewFileExtractSettles
    \/ \E i \in 1..MaxEvents : ManagerHandlerSettles(i)
    \/ WatcherClose
    \/ ChokidarCloseSettles
    \/ QueueIdleSettles

SpecWatcher == InitWatcher /\ [][NextWatcher]_vars

\* ------------------------------------------------------- the LRU cache
\* the keys set, in order; a run of FillRun sets of new keys brings the
\* cache near its size; TouchedKeys are read, written again or deleted
FillRun == POSITION_CACHE_SIZE - 2
LruKeys == 1..(FillRun + MaxExtra)
TouchedKeys == {1, 2}

\* set(from, from), set(from + 1, from + 1), ... : n sets of new keys, the
\* first half of them computed before the second
RECURSIVE lruSetRun(_, _, _)
lruSetRun(cache, from, n) ==
    IF n = 0 THEN cache
    ELSE IF n = 1 THEN lruSet(cache, from, from)
    ELSE LET half == n \div 2
             first == lruSetRun(cache, from, half)
         IN  IF Len(first) >= 0
             THEN lruSetRun(first, from + half, n - half)
             ELSE first

\* lru.cache is the cache; lru.used[k] is the step at which key k was last
\* written by set or found by get (0: never, or deleted since); lru.before
\* and lru.usedBefore are both before the last operation
InitLru ==
    /\ EngineUnused
    /\ lc = IdleLc /\ exec = IdleExec /\ ms = IdleMs
    /\ shown = NothingShown /\ sm = IdleSm /\ fp = IdleFp
    /\ sw = IdleSw /\ app = IdleApp
    /\ pw = IdlePw
    /\ lru = [cache |-> <<>>, used |-> [k \in LruKeys |-> 0], clock |-> 0,
              fresh |-> 0, singles |-> 0, filled |-> FALSE, touches |-> 0,
              op |-> "new", key |-> 0,
              result |-> Undefined, before |-> <<>>,
              usedBefore |-> [k \in LruKeys |-> 0]]

LruOnly ==
    UNCHANGED <<options, state, ops, frame, prevArg, pre, nCalls, increments,
                resized, term, tpc, tin, view, lc, exec, ms, shown, sm, fp,
                sw, app, pw>>

\* filePositions.set(key, value)
LruSetCall(key, value) ==
    [lru EXCEPT !.cache = lruSet(lru.cache, key, value),
                !.clock = @ + 1,
                !.used[key] = lru.clock + 1,
                !.op = "set", !.key = key, !.result = Undefined,
                !.before = lru.cache, !.usedBefore = lru.used]

\* set is called with a key never used before
LruSetFresh ==
    /\ lru.singles < MaxExtra
    /\ lru' = [LruSetCall(lru.fresh + 1, lru.fresh + 1)
                 EXCEPT !.fresh = @ + 1, !.singles = @ + 1]
    /\ LruOnly

\* set is called FillRun times in a row, each time with a key never used
\* before
LruSetRun ==
    /\ ~lru.filled
    /\ LET from == lru.fresh + 1
           last == lru.fresh + FillRun
       IN  lru' = [lru EXCEPT
                     !.cache = lruSetRun(lru.cache, from, FillRun),
                     !.clock = @ + FillRun,
                     !.used = [k \in LruKeys |->
                                  IF k \in from..last
                                  THEN lru.clock + (k - from) + 1
                                  ELSE lru.used[k]],
                     !.fresh = last, !.filled = TRUE,
                     !.op = "set", !.key = last, !.result = Undefined,
                     !.before = lruSetRun(lru.cache, from, FillRun - 1),
                     !.usedBefore = [k \in LruKeys |->
                                  IF k \in from..(last - 1)
                                  THEN lru.clock + (k - from) + 1
                                  ELSE lru.used[k]]]
    /\ LruOnly

\* set is called with a key used before
LruSetAgain(key) ==
    /\ lru.touches < MaxTouches
    /\ key <= lru.fresh
    /\ lru' = [LruSetCall(key, 0) EXCEPT !.touches = @ + 1]
    /\ LruOnly

\* filePositions.get(key)
LruGetCall(key) ==
    /\ lru.touches < MaxTouches
    /\ key <= lru.fresh
    /\ LET r == lruGet(lru.cache, key)
       IN  lru' = [lru EXCEPT !.cache = r.cache,
                              !.clock = @ + 1,
                              !.used[key] = IF r.value.undefined THEN @
                                            ELSE lru.clock + 1,
                              !.touches = @ + 1,
                              !.op = "get", !.key = key, !.result = r.value,
                              !.before = lru.cache, !.usedBefore = lru.used]
    /\ LruOnly

\* filePositions.delete(key)
LruDeleteCall(key) ==
    /\ lru.touches < MaxTouches
    /\ key <= lru.fresh
    /\ lru' = [lru EXCEPT !.cache = lruDelete(lru.cache, key),
                          !.clock = @ + 1,
                          !.used[key] = 0,
                          !.touches = @ + 1,
                          !.op = "delete", !.key = key, !.result = Undefined,
                          !.before = lru.cache, !.usedBefore = lru.used]
    /\ LruOnly

NextLru ==
    \/ LruSetFresh
    \/ LruSetRun
    \/ \E key \in TouchedKeys : LruSetAgain(key)
    \/ \E key \in TouchedKeys : LruGetCall(key)
    \/ \E key \in TouchedKeys : LruDeleteCall(key)

SpecLru == InitLru /\ [][NextLru]_vars

\* ------------------------------------------------------------- the App
\* what listProjects and listConversations can give: a list, or an error
\* thrown
Listed(lists) ==
    {[ok |-> TRUE, value |-> l] : l \in lists} \cup {[ok |-> FALSE, value |-> <<>>]}
ProjectLists == Listed({ <<"A", "B">>, <<>> })
ConversationLists == Listed({ <<"c1">>, <<"c1", "c2">>, <<>> })

LoadingState == [stage |-> "loading"]
ErrorState == [stage |-> "error"]
SelectProjectState(projects) == [stage |-> "select-project", projects |-> projects]
SelectConversationState(project, conversations) ==
    [stage |-> "select-conversation", project |-> project,
     conversations |-> conversations]
\* "all" watches every conversation of the list
WatchingState(project, conversation, conversations) ==
    [stage |-> "watching",
     sessionFiles |-> IF conversation = "all"
                      THEN [k \in DOMAIN conversations |->
                              <<project, conversations[k]>>]
                      ELSE << <<project, conversation>> >>]

\* app.state and app.navigationStack are the component's React state;
\* app.calls holds the handleProjectSelect calls waiting for listConversations,
\* each with the state and stack of the render that made its closure;
\* app.from is the state before the last step and app.left the state shown
\* when the last forward selection from each stage was made
InitApp ==
    /\ EngineUnused
    /\ lc = IdleLc /\ exec = IdleExec /\ ms = IdleMs
    /\ shown = NothingShown /\ sm = IdleSm /\ fp = IdleFp
    /\ sw = IdleSw /\ lru = IdleLru
    /\ pw = IdlePw
    /\ app = [state |-> LoadingState, navigationStack |-> <<>>,
              calls |-> <<>>, selects |-> 0, op |-> "mount",
              from |-> LoadingState,
              left |-> [projects |-> LoadingState, conversations |-> LoadingState]]

AppOnly ==
    UNCHANGED <<options, state, ops, frame, prevArg, pre, nCalls, increments,
                resized, term, tpc, tin, view, lc, exec, ms, shown, sm, fp,
                sw, lru, pw>>

\* a step of the component: the state it leaves is recorded
AppStep(op, a) == [a EXCEPT !.op = op, !.from = app.state]

\* the mount effect's listProjects settles
ListProjectsSettles ==
    /\ app.state.stage = "loading"
    /\ \E projects \in ProjectLists :
          app' = AppStep("initialize",
                   [app EXCEPT !.state =
                       IF ~projects.ok \/ Len(projects.value) = 0
                       THEN ErrorState
                       ELSE SelectProjectState(projects.value)])
    /\ AppOnly

\* the project selector calls onSelect: handleProjectSelect runs to its
\* await of listConversations
ProjectSelect(project) ==
    /\ app.state.stage = "select-project"
    /\ app.selects < MaxSelects
    /\ \E k \in DOMAIN app.state.projects : app.state.projects[k] = project
    /\ app' = AppStep("project-select",
                [app EXCEPT !.selects = @ + 1,
                            !.calls = Append(@,
                               [project |-> project, state |-> app.state,
                                navigationStack |-> app.navigationStack])])
    /\ AppOnly

\* the listConversations of a handleProjectSelect call settles and the call
\* runs to its end
ListConversationsSettles(i) ==
    /\ i \in DOMAIN app.calls
    /\ \E conversations \in ConversationLists :
          LET call == app.calls[i]
              rest == [app EXCEPT !.calls =
                         SubSeq(@, 1, i - 1) \o SubSeq(@, i + 1, Len(@))]
          IN  app' = AppStep("project-selected",
                IF ~conversations.ok \/ Len(conversations.value) = 0
                THEN [rest EXCEPT !.state = ErrorState]
                ELSE [rest EXCEPT
                        !.navigationStack =
                            Append(call.navigationStack,
                                   [type |-> "project-list",
                                    projects |-> call.state.projects]),
                        !.state = SelectConversationState(call.project,
                                                          conversations.value),
                        !.left.projects = call.state])
    /\ AppOnly

\* the session selector calls onSelect: handleConversationSelect
ConversationSelect(conversation) ==
    /\ app.state.stage = "select-conversation"
    /\ \/ conversation = "all"
       \/ \E k \in DOMAIN app.state.conversations :
             app.state.conversations[k] = conversation
    /\ app' = AppStep("conversation-select",
                [app EXCEPT
                   !.navigationStack =
                       Append(@, [type |-> "conversation-list",
                                  project |-> app.state.project,
                                  conversations |-> app.state.conversations]),
                   !.state = WatchingState(app.state.project, conversation,
                                           app.state.conversations),
                   !.left.conversations = app.state])
    /\ AppOnly

\* the session selector calls onBack: handleBackToProjectSelect
BackToProjectSelect ==
    /\ app.state.stage = "select-conversation"
    /\ LET n == Len(app.navigationStack)
           previousFrame == app.navigationStack[n]
       IN  app' = AppStep("back-to-projects",
                    IF n > 0
                    THEN [app EXCEPT
                            !.navigationStack = SubSeq(@, 1, n - 1),
                            !.state = IF previousFrame.type = "project-list"
                                      THEN SelectProjectState(previousFrame.projects)
                                      ELSE @]
                    ELSE app)
    /\ AppOnly

\* the stream view calls onBack, which it is given when the stack is not
\* empty: handleBackToConversationSelect
BackToConversationSelect ==
    /\ app.state.stage = "watching"
    /\ Len(app.navigationStack) > 0
    /\ LET n == Len(app.navigationStack)
           previousFrame == app.navigationStack[n]
       IN  app' = AppStep("back-to-conversations",
                    [app EXCEPT
                       !.navigationStack = SubSeq(@, 1, n - 1),
                       !.state = IF previousFrame.type = "conversation-list"
                                 THEN SelectConversationState(
                                          previousFrame.project,
                                          previousFrame.conversations)
                                 ELSE @])
    /\ AppOnly

NextApp ==
    \/ ListProjectsSettles
    \/ \E project \in {"A", "B"} : ProjectSelect(project)
    \/ \E i \in 1..MaxSelects : ListConversationsSettles(i)
    \/ \E conversation \in {"c1", "c2", "all"} : ConversationSelect(conversation)
    \/ BackToProjectSelect
    \/ BackToConversationSelect

SpecApp == InitApp /\ [][NextApp]_vars

\* ------------------------------------------------------- claim vocabulary
Interactive == options.isTTY /\ ~options.debug
SameDims(f, g) == f.columns = g.columns /\ f.rows = g.rows
OpTypes(o) == [i \in DOMAIN o |-> o[i].type]
HasOp(o, t) == \E i \in DOMAIN o : o[i].type = t
Blank(s) == ~Truthy(Trim(s))

\* the increments joined by one "\n" between neighbours, in arrival order
RECURSIVE JoinIncrements(_)
JoinIncrements(incs) ==
    IF incs = <<>> THEN <<>>
    ELSE IF Len(incs) = 1 THEN incs[1]
    ELSE JoinIncrements(SubSeq(incs, 1, Len(incs) - 1)) \o <<NL>> \o incs[Len(incs)]

\* --------------------------------------------------------------- claims

\* C1: on an interactive engine, a frame with an empty or whitespace-only
\* increment, the status that is recorded as shown and the dimensions of the
\* last frame returns no operation and leaves the accumulator and the shown
\* status as they were.
C1_IdempotentNoOp ==
    ( /\ nCalls > 0 /\ Interactive
      /\ Blank(frame.staticOutput)
      /\ pre.previousDynamicOutput = frame.dynamicOutput \o <<NL>>
      /\ SameDims(frame, prevArg) )
    => /\ ops = <<>>
       /\ state.fullStaticOutput = pre.fullStaticOutput
       /\ state.previousDynamicOutput = pre.previousDynamicOutput

C1_Witness ==
    /\ nCalls > 1 /\ Interactive
    /\ frame.staticOutput = <<" ">>
    /\ Truthy(frame.dynamicOutput)
    /\ pre.previousDynamicOutput = frame.dynamicOutput \o <<NL>>
    /\ SameDims(frame, prevArg)
    /\ Truthy(pre.fullStaticOutput)
    /\ ops = <<>>

\* C2 as stated: after frames that all carry a non-empty increment and never
\* change the dimensions, the accumulator is the increments joined by the
\* separator rule.
C2_AsStated ==
    ( /\ nCalls > 0 /\ ~resized
      /\ \A i \in DOMAIN increments : increments[i] # <<>> )
    => state.fullStaticOutput = JoinIncrements(increments)

\* C2 amended: on an interactive engine, after frames that all carry an
\* increment with at least one non-whitespace character and never change
\* the dimensions, the accumulator is the increments joined by the separator
\* rule, whatever the statuses were.
C2_MonotonicAccumulation ==
    ( /\ Interactive /\ ~resized
      /\ \A i \in DOMAIN increments : ~Blank(increments[i]) )
    => state.fullStaticOutput = JoinIncrements(increments)

C2_Witness ==
    /\ Interactive /\ ~resized /\ nCalls >= 2
    /\ \A i \in DOMAIN increments : ~Blank(increments[i])
    /\ increments[1] # increments[2]
    /\ frame.dynamicOutput # prevArg.dynamicOutput
    /\ state.fullStaticOutput = JoinIncrements(increments)

\* C3: on an interactive engine, a frame whose columns or rows differ from
\* the last processed frame's returns exactly begin-atomic, clear screen and
\* scrollback, scrollback writes of the whole accumulator, of the status and
\* of "\n", end-atomic.
C3_ResizeFullRedraw ==
    ( nCalls > 0 /\ Interactive /\ ~SameDims(frame, prevArg) )
    => ops = << OpSyncStart, OpClearTerminal,
                OpStdout(state.fullStaticOutput, TRUE),
                OpStdout(frame.dynamicOutput, TRUE),
                OpStdout(<<NL>>, TRUE),
                OpSyncEnd >>

C3_Witness ==
    /\ nCalls > 1 /\ Interactive /\ ~SameDims(frame, prevArg)
    /\ Truthy(pre.fullStaticOutput)
    /\ ~Blank(frame.staticOutput)
    /\ Len(ops) = 6
    /\ ops[3].content = pre.fullStaticOutput \o <<NL>> \o frame.staticOutput

\* C4: on an interactive engine, the returned operations contain a clear of
\* screen and scrollback exactly when the frame's columns or rows differ
\* from those of the most recently processed frame.
C4_ResizeIdempotence ==
    ( nCalls > 0 /\ Interactive )
    => ( HasOp(ops, "clearTerminal") <=> ~SameDims(frame, prevArg) )

C4_Witness ==
    /\ nCalls > 1 /\ Interactive
    /\ SameDims(frame, prevArg)
    /\ ~SameDims(frame, [columns |-> 2, rows |-> 2])
    /\ ops # <<>>
    /\ ~HasOp(ops, "clearTerminal")

\* C5: in a frame on the normal path of an interactive engine, every write
\* to scrollback carries the increment, alone or after the separator, and
\* every write outside scrollback carries the status text or its trailing
\* newline.
C5_StatusNeverInScrollback ==
    ( nCalls > 0 /\ Interactive /\ SameDims(frame, prevArg) )
    => \A i \in DOMAIN ops :
          ops[i].type = "stdout" =>
             IF ops[i].scrollback
             THEN /\ ~Blank(frame.staticOutput)
                  /\ ops[i].content \in { frame.staticOutput,
                                          <<NL>> \o frame.staticOutput }
             ELSE ops[i].content \in { frame.dynamicOutput, <<NL>> }

C5_Witness ==
    /\ nCalls > 1 /\ Interactive /\ SameDims(frame, prevArg)
    /\ \E i, j \in DOMAIN ops :
          /\ ops[i].type = "stdout" /\ ops[i].scrollback
          /\ ops[j].type = "stdout" /\ ~ops[j].scrollback
          /\ ops[j].content = frame.dynamicOutput
    /\ Truthy(frame.dynamicOutput)

\* C6: after a status and "\n" were written from column 0 of row startRow
\* at the terminal's width, executing the clear of
\* countTerminalLines(status + "\n", width) lines erases exactly the rows
\* the write occupied, leaves them blank, puts the cursor back at column 0
\* of row startRow and changes no row above it.
C6_EraseReversesWrite ==
    tpc = "erased" =>
       /\ ops = <<OpClear(countTerminalLines(tin.status \o <<NL>>, tin.width))>>
       /\ term.erased = tin.occupied
       /\ term.written \subseteq tin.occupied
       /\ term.row = tin.startRow /\ term.col = 0
       /\ \A i \in 1..tin.startRow : term.screen[i] = tin.before[i]
       /\ \A i \in (tin.startRow + 1)..Len(term.screen) : term.screen[i] = <<>>

C6_Witness ==
    /\ tpc = "erased"
    /\ tin.startRow > 0
    /\ tin.status = <<ESC, "[", "3", "1", ";", "1", "m", "g", "g", "g", ESC, "[", "0", "m", NL, "f">>
    /\ tin.width = 2
    /\ Cardinality(term.erased) = 4

\* number of positions of s that hold c
Occurrences(c, s) == Cardinality({i \in DOMAIN s : s[i] = c})

\* C7: once the new-messages effect has run for every store change, each
\* block the store holds has been formatted once and its text stands once
\* in the accumulated transcript of the engine.
C7_ExactlyOnceRendering ==
    ( Interactive /\ view.open /\ ~view.needsRender /\ view.loggerProp # 0 )
    => LET blocks == view.stores[view.messageStoreRef].blocks
       IN  \A i \in DOMAIN blocks :
              /\ Cardinality({k \in DOMAIN view.formatted :
                                 view.formatted[k] = blocks[i]}) = 1
              /\ Occurrences(blocks[i].text[1],
                             view.loggers[view.loggerProp].fullStaticOutput) = 1

\* C8: while the view is open there is one CustomRenderLogger, the one
\* created at mount; it is the one the ref holds and it has not been
\* cleared.
C8_OneEnginePerView ==
    view.open =>
       /\ view.gens = 1
       /\ view.renderLoggerRef = 1
       /\ ~view.cleared[1]

\* C9: when isTTY is false, render returns one scrollback write of the
\* increment if the increment is non-empty and nothing otherwise, whatever
\* the status, the dimensions and the earlier frames.
C9_NonInteractive ==
    ( nCalls > 0 /\ ~options.isTTY )
    => ops = IF frame.staticOutput # <<>>
             THEN <<OpStdout(frame.staticOutput, TRUE)>>
             ELSE <<>>

C9_Witness ==
    /\ nCalls > 1 /\ ~options.isTTY
    /\ frame.staticOutput = <<" ">>
    /\ ~SameDims(frame, prevArg)
    /\ frame.dynamicOutput # prevArg.dynamicOutput
    /\ Len(ops) = 1

\* C10: on an interactive engine, a non-empty result starts with the one
\* begin-atomic marker, ends with the one end-atomic marker and holds at
\* least one operation between them, none of which is a marker.
C10_AtomicWrapping ==
    ( nCalls > 0 /\ Interactive /\ ops # <<>> )
    => /\ Len(ops) >= 3
       /\ ops[1] = OpSyncStart
       /\ ops[Len(ops)] = OpSyncEnd
       /\ \A i \in 2..(Len(ops) - 1) :
             ops[i].type \notin {"synchronizedUpdateStart", "synchronizedUpdateEnd"}

C10_Witness ==
    /\ nCalls > 0 /\ Interactive /\ SameDims(frame, prevArg)
    /\ Len(ops) >= 5
    /\ HasOp(ops, "clear")

\* the operations of a first message: the increment to scrollback, then the
\* status and its newline outside scrollback, inside the atomic markers
FirstMessageOps(f) ==
    << OpSyncStart,
       OpStdout(f.staticOutput, TRUE),
       OpStdout(f.dynamicOutput, FALSE),
       OpStdout(<<NL>>, FALSE),
       OpSyncEnd >>

\* C11 as stated: the first frame of a fresh interactive engine, with a
\* non-empty increment I, a status S and the initial dimensions, returns
\* exactly begin-atomic, scrollback write of I, write of S, write of "\n",
\* end-atomic, and the accumulator becomes I.
C11_AsStated ==
    ( /\ nCalls = 1 /\ Interactive
      /\ frame.staticOutput # <<>>
      /\ SameDims(frame, prevArg) )
    => /\ ops = FirstMessageOps(frame)
       /\ state.fullStaticOutput = frame.staticOutput

\* C11 amended: the same for an increment that holds at least one
\* non-whitespace character; no clear is among the operations.
C11_FirstMessage ==
    ( /\ nCalls = 1 /\ Interactive
      /\ ~Blank(frame.staticOutput)
      /\ SameDims(frame, prevArg) )
    => /\ ops = FirstMessageOps(frame)
       /\ ~HasOp(ops, "clear")
       /\ state.fullStaticOutput = frame.staticOutput

C11_Witness ==
    /\ nCalls = 1 /\ Interactive
    /\ frame.staticOutput = <<"b", NL>>
    /\ frame.dynamicOutput = <<"g", "g", "g">>
    /\ prevArg.dynamicOutput = <<"g", "g", "g">>
    /\ SameDims(frame, prevArg)
    /\ Len(ops) = 5
    /\ state.fullStaticOutput = <<"b", NL>>

\* the engine has processed "Hello\n" and then "World\n", both with the
\* status "footer" and both at 80 columns and 24 rows
TwoMessages ==
    /\ nCalls = 2 /\ Interactive
    /\ increments = <<Hello, World>>
    /\ frame.dynamicOutput = Footer /\ prevArg.dynamicOutput = Footer
    /\ SameDims(frame, [columns |-> 80, rows |-> 24])
    /\ SameDims(prevArg, [columns |-> 80, rows |-> 24])

\* C12 as stated: the frame of the second message clears
\* lineCount("footer\n", 80) = 1 line and then writes "\nWorld\n" to
\* scrollback.
C12_AsStated ==
    TwoMessages
    => /\ countTerminalLines(Footer \o <<NL>>, 80) = 1
       /\ Len(ops) >= 3
       /\ ops[2] = OpClear(1)
       /\ ops[3] = OpStdout(<<NL>> \o World, TRUE)

\* C12 amended: the frame of the second message clears
\* lineCount("footer\n", 80) = 2 lines (the status line and the empty line
\* after its newline) and then writes "\nWorld\n" to scrollback.
C12_SecondMessage ==
    TwoMessages
    => /\ countTerminalLines(Footer \o <<NL>>, 80) = 2
       /\ Len(ops) >= 3
       /\ ops[2] = OpClear(2)
       /\ ops[3] = OpStdout(<<NL>> \o World, TRUE)
       /\ state.fullStaticOutput = Hello \o <<NL>> \o World

C12_Witness ==
    /\ TwoMessages
    /\ ~resized
    /\ pre.previousDynamicOutput = Footer \o <<NL>>
    /\ ops[2].type = "clear"

\* a frame on the normal path of an interactive engine that brings an
\* increment while the status it carries is the one recorded as shown
IncrementUnderShownStatus ==
    /\ nCalls > 0 /\ Interactive
    /\ SameDims(frame, prevArg)
    /\ ~Blank(frame.staticOutput)
    /\ pre.previousDynamicOutput = frame.dynamicOutput \o <<NL>>

\* C13 as stated: in such a frame the status phase is a no-op: no
\* operation writes the status outside scrollback.
C13_AsStated ==
    IncrementUnderShownStatus
    => ~\E i \in DOMAIN ops :
           /\ ops[i].type = "stdout" /\ ~ops[i].scrollback
           /\ ops[i].content = frame.dynamicOutput

\* C13 amended: in such a frame the static phase clears the shown status
\* and the status phase writes it again: the operations are begin-atomic,
\* one clear of the status' lines, the scrollback write of the increment
\* after the separator, the status and "\n" outside scrollback, end-atomic.
C13_StatusRewritten ==
    IncrementUnderShownStatus
    => /\ ops = << OpSyncStart,
                   OpClear(countTerminalLines(frame.dynamicOutput \o <<NL>>,
                                              prevArg.columns)),
                   OpStdout((IF Truthy(pre.fullStaticOutput) THEN <<NL>> ELSE <<>>)
                            \o frame.staticOutput, TRUE),
                   OpStdout(frame.dynamicOutput, FALSE),
                   OpStdout(<<NL>>, FALSE),
                   OpSyncEnd >>
       /\ state.previousDynamicOutput = frame.dynamicOutput \o <<NL>>

C13_Witness ==
    /\ IncrementUnderShownStatus
    /\ nCalls > 1
    /\ frame.dynamicOutput = <<"g", "g", "g">>
    /\ prevArg.dynamicOutput = frame.dynamicOutput
    /\ Truthy(pre.fullStaticOutput)
    /\ Len(ops) = 6
    /\ ops[2] = OpClear(3)

IsPrefix(p, s) == Len(p) <= Len(s) /\ SubSeq(s, 1, Len(p)) = p

\* C14: on every path of render (normal, resize, no-op, non-interactive)
\* the accumulator before the call is a prefix of the accumulator after
\* it, and a resize writes back a text that starts with the accumulator as
\* it was.
C14_AppendOnly ==
    nCalls > 0
    => /\ IsPrefix(pre.fullStaticOutput, state.fullStaticOutput)
       /\ HasOp(ops, "clearTerminal")
             => IsPrefix(pre.fullStaticOutput, ops[3].content)

C14_Witness ==
    /\ nCalls = MaxFrames /\ Interactive
    /\ ~SameDims(frame, prevArg)
    /\ ~Blank(frame.staticOutput)
    /\ Len(pre.fullStaticOutput) > 2
    /\ state.fullStaticOutput # pre.fullStaticOutput
    /\ IsPrefix(pre.fullStaticOutput, state.fullStaticOutput)
    /\ HasOp(ops, "clearTerminal")

RowsOfLine(v, width) ==
    IF v = 0 THEN 1
    ELSE CHOOSE n \in 1..v : n * width >= v /\ (n - 1) * width < v

IsSgrPiece(p) == p[1] = ESC /\ p[Len(p)] = "m"
VisibleLength(p) == IF IsSgrPiece(p) THEN 0 ELSE Len(p)

\* the sum of the rows of the lines of the text made of pieces i.., the
\* line under way holding cur visible characters so far
RECURSIVE ExpectedRows(_, _, _, _)
ExpectedRows(ps, i, cur, width) ==
    IF i > Len(ps) THEN RowsOfLine(cur, width)
    ELSE IF ps[i] = <<NL>>
         THEN RowsOfLine(cur, width) + ExpectedRows(ps, i + 1, 0, width)
         ELSE ExpectedRows(ps, i + 1, cur + VisibleLength(ps[i]), width)

\* the pieces that are not colour sequences
WithoutSgr(ps) == SelectSeq(ps, LAMBDA q : ~IsSgrPiece(q))

\* C16: for a non-empty text and a positive width the line count is the sum
\* over the newline-separated lines of max(1, ceil(v / width)), v being the
\* line's length without its colour sequences; taking the colour sequences
\* out of a text that has other content leaves the count as it is.
C16_Wrapping ==
    ( lc.called /\ lc.text # <<>> /\ lc.width > 0 )
    => /\ lc.result = ExpectedRows(lc.pieces, 1, 0, lc.width)
       /\ WithoutSgr(lc.pieces) # <<>>
             => lc.result = countTerminalLines(Flatten(WithoutSgr(lc.pieces)), lc.width)

C16_Witness ==
    /\ lc.called /\ lc.width = 1
    /\ lc.pieces = << <<ESC, "[", "3", "1", "m">>, <<"a">>, <<"a">>,
                      <<ESC, "[", "3", "1", "m">> >>
    /\ lc.result = 2

\* C17 as stated: at a width of 0 or less the line count is the number of
\* "\n" in the text.
C17_AsStated ==
    ( lc.called /\ lc.width <= 0 ) => lc.result = Occurrences(NL, lc.text)

\* C17 amended: at a width of 0 or less the line count is 0 for the empty
\* text and otherwise the number of newline-separated lines, which is the
\* number of "\n" plus one.
C17_DegenerateWidth ==
    ( lc.called /\ lc.width <= 0 )
    => lc.result = IF lc.text = <<>> THEN 0 ELSE Occurrences(NL, lc.text) + 1

C17_Witness ==
    /\ lc.called /\ lc.width = 0
    /\ lc.pieces = << <<"a">>, <<NL>>, <<ESC, "[", "3", "1", "m">>, <<NL>> >>
    /\ lc.result = 3

\* the bytes an operation adds to the primary stream
OpBytes(op, env) ==
    IF op.type = "stdout" THEN op.content
    ELSE IF op.type = "clear" THEN eraseLines(op.count)
    ELSE IF op.type = "clearTerminal" THEN <<getClearSequence(env)>>
    ELSE IF op.type = "cursorHide" THEN <<CURSOR_HIDE>>
    ELSE IF op.type = "cursorShow" THEN <<CURSOR_SHOW>>
    ELSE IF op.type = "synchronizedUpdateStart" THEN <<SYNC_START>>
    ELSE IF op.type = "synchronizedUpdateEnd" THEN <<SYNC_END>>
    ELSE <<>>

\* the primary-stream bytes of a list of operations, in order
RECURSIVE BytesOf(_, _)
BytesOf(operations, env) ==
    IF operations = <<>> THEN <<>>
    ELSE OpBytes(Head(operations), env) \o BytesOf(Tail(operations), env)

\* the data of the stdout writes among the given writes, in order
RECURSIVE StdoutData(_)
StdoutData(writes) ==
    IF writes = <<>> THEN <<>>
    ELSE (IF Head(writes).stream = "stdout" THEN Head(writes).data ELSE <<>>)
         \o StdoutData(Tail(writes))

CountWhere(seq, Test(_)) == Cardinality({i \in DOMAIN seq : Test(seq[i])})

\* C18: without an error-stream operation stdout is written once, with the
\* bytes of all operations in order, if there are any bytes, and not at all
\* otherwise; stdout is never written with nothing; every error-stream
\* operation is one stderr write, with the primary bytes of the operations
\* before it written before it and those of the operations after it after.
C18_SingleFlush ==
    exec.called =>
       LET o == exec.operations
           w == exec.writes
           IsErrOp(x) == x.type = "stderr"
           IsErrWrite(x) == x.stream = "stderr"
       IN  /\ (\A k \in DOMAIN o : ~IsErrOp(o[k]))
                => w = IF BytesOf(o, exec.env) # <<>>
                       THEN <<[stream |-> "stdout", data |-> BytesOf(o, exec.env)]>>
                       ELSE <<>>
           /\ o = <<>> => w = <<>>
           /\ \A j \in DOMAIN w : w[j].stream = "stdout" => w[j].data # <<>>
           /\ CountWhere(w, IsErrWrite) = CountWhere(o, IsErrOp)
           /\ \A k \in DOMAIN o :
                 IsErrOp(o[k]) =>
                    \E j \in DOMAIN w :
                       /\ w[j] = [stream |-> "stderr", data |-> o[k].content]
                       /\ StdoutData(SubSeq(w, 1, j - 1))
                            = BytesOf(SubSeq(o, 1, k - 1), exec.env)
                       /\ StdoutData(SubSeq(w, j + 1, Len(w)))
                            = BytesOf(SubSeq(o, k + 1, Len(o)), exec.env)

C18_Witness ==
    /\ exec.called
    /\ Len(exec.operations) = MaxOps
    /\ exec.operations[2] = OpStderr(<<"e">>)
    /\ Len(exec.writes) = 3
    /\ exec.writes[1].stream = "stdout"
    /\ exec.writes[2].stream = "stderr"
    /\ exec.writes[3].data = eraseLines(2)

\* C19: after any addBlocks calls no two stored blocks have the same key and
\* the key set is the set of the stored blocks' keys; a call returns true
\* exactly when its batch holds a block whose key the store did not hold,
\* and then the store has grown; a call that returns false (an empty or
\* all-duplicate batch) leaves the store as it was.
C19_Deduplication ==
    ( ms.calls > 0 /\ ms.op = "add" ) =>
       LET blocks == ms.store.blocks
       IN  /\ \A i, j \in DOMAIN blocks :
                 i # j => getBlockKey(blocks[i]) # getBlockKey(blocks[j])
           /\ ms.store.blockKeys = {getBlockKey(blocks[i]) : i \in DOMAIN blocks}
           /\ ms.result = (\E k \in DOMAIN ms.batch :
                               getBlockKey(ms.batch[k]) \notin ms.before.blockKeys)
           /\ ms.result => Len(blocks) > Len(ms.before.blocks)
           /\ ~ms.result => ms.store = ms.before

C19_Witness ==
    /\ ms.calls > 1 /\ ms.op = "add"
    /\ Len(ms.batch) = 2
    /\ ms.batch[1] # ms.batch[2]
    /\ getBlockKey(ms.batch[1]) = getBlockKey(ms.batch[2])
    /\ ms.before.blocks # <<>>
    /\ ms.result
    /\ Len(ms.store.blocks) = Len(ms.before.blocks) + 1

\* C20: after any addBlocks calls the stored blocks are in non-decreasing
\* order of timestamp.
C20_ChronologicalOrder ==
    ms.calls > 0 =>
       \A i, j \in DOMAIN ms.store.blocks :
          i < j => ms.store.blocks[i].timestamp <= ms.store.blocks[j].timestamp

\* C21: an addBlocks call that stored a block calls every subscribed
\* listener once, with the complete block list of the store, and no other
\* callback; an addBlocks call that stored nothing calls nobody; a callback
\* whose unsubscribe function was called is not called.
C21_Notification ==
    ms.op = "add" =>
       /\ \A cb \in Callbacks :
             ms.notified.invoked[cb] =
                IF ms.result /\ cb \in ms.listeners THEN 1 ELSE 0
       /\ ms.result => ms.notified.event = ms.store.blocks
       /\ \A cb \in ms.unsubscribed : ms.notified.invoked[cb] = 0
       /\ ms.listeners \cap ms.unsubscribed = {}

C21_Witness ==
    /\ ms.op = "add" /\ ms.result
    /\ "l1" \in ms.unsubscribed
    /\ ms.notified.invoked["l1"] = 0
    /\ ms.notified.invoked["l2"] = 1
    /\ Len(ms.batch) = 1
    /\ Len(ms.notified.event) = 2

\* C22: clear() leaves no block and no key and calls every subscribed
\* listener once with the empty list; an addBlocks call right after it
\* accepts every block of its batch that is new within the batch, blocks
\* stored before the clear included, and returns true.
C22_Clear ==
    /\ ms.op = "clear" =>
          /\ ms.store.blocks = <<>>
          /\ ms.store.blockKeys = {}
          /\ ms.notified.event = <<>>
          /\ \A cb \in Callbacks :
                ms.notified.invoked[cb] = IF cb \in ms.listeners THEN 1 ELSE 0
    /\ ( ms.op = "add" /\ ms.afterClear /\ ms.batch # <<>> ) =>
          /\ ms.result
          /\ \A k \in DOMAIN ms.batch :
                getBlockKey(ms.batch[k]) \in ms.store.blockKeys

C22_Witness ==
    /\ ms.op = "add" /\ ms.afterClear
    /\ ms.listeners # {}
    /\ \E k \in DOMAIN ms.batch : ms.batch[k] \in ms.dropped
    /\ ms.result
    /\ ms.store.blocks = ms.batch

\* ------------------------------------------------- scrollback and clears
NormalPath == Interactive /\ nCalls > 0 /\ ~ShouldDoFullRedraw(pre, frame)
ClearOps == SelectSeq(ops, LAMBDA o : o.type = "clear")
ScrollbackWrites == SelectSeq(ops, LAMBDA o : o.type = "stdout" /\ o.scrollback)

\* C27: on an interactive engine the text written to the scrollback since
\* the screen was last cleared (the resize path's status and newline apart)
\* is the accumulator; the normal path writes an increment after one "\n"
\* exactly when the accumulator held text before the frame.
C27_ScrollbackMirror ==
    Interactive =>
       /\ shown.scrollback = state.fullStaticOutput
       /\ (NormalPath /\ ~Blank(frame.staticOutput)) =>
             ScrollbackWrites =
                <<OpStdout((IF pre.fullStaticOutput # <<>> THEN <<NL>> ELSE <<>>)
                           \o frame.staticOutput, TRUE)>>

\* an increment written after a separator, after a resize redraw
C27_Witness ==
    /\ NormalPath /\ resized
    /\ ~Blank(frame.staticOutput)
    /\ pre.fullStaticOutput # <<>>
    /\ Len(ScrollbackWrites) = 1
    /\ Head(ScrollbackWrites[1].content) = NL
    /\ shown.scrollback = state.fullStaticOutput

\* C28: in a normal-path frame every ClearLines counts the rows of the
\* status last written to the terminal followed by "\n", at the column
\* count of the frame that wrote it, also right after a resize redraw.
C28_ClearCount ==
    NormalPath =>
       \A i \in DOMAIN ClearOps :
          /\ shown.prior.hasStatus
          /\ ClearOps[i].count =
                countTerminalLines(shown.prior.status \o <<NL>>, shown.prior.columns)
          /\ shown.prior.columns = pre.prevFrame.columns

\* the first normal frame after a resize redraw clears a wrapping status
C28_Witness ==
    /\ NormalPath /\ nCalls = 2
    /\ resized
    /\ Len(ClearOps) = 1
    /\ shown.prior.status = <<"g", "g", "g">>
    /\ shown.prior.columns = 2
    /\ ClearOps[1].count = 3

\* C29: a normal-path frame with an empty increment and a status other than
\* the one on the terminal returns the start marker, a clear of the status
\* on the terminal if there is one, the status and "\n" outside the
\* scrollback and the end marker; the accumulator is left alone and the
\* status followed by "\n" is recorded as shown.
C29_StatusOnlyUpdate ==
    (/\ NormalPath
     /\ frame.staticOutput = <<>>
     /\ IF shown.prior.hasStatus THEN frame.dynamicOutput # shown.prior.status
        ELSE frame.dynamicOutput # <<>>)
    =>
       /\ ops = <<OpSyncStart>>
                \o (IF shown.prior.hasStatus
                    THEN <<OpClear(countTerminalLines(shown.prior.status \o <<NL>>,
                                                      shown.prior.columns))>>
                    ELSE <<>>)
                \o <<OpStdout(frame.dynamicOutput, FALSE), OpStdout(<<NL>>, FALSE),
                     OpSyncEnd>>
       /\ ScrollbackWrites = <<>>
       /\ state.fullStaticOutput = pre.fullStaticOutput
       /\ state.previousDynamicOutput = frame.dynamicOutput \o <<NL>>

\* C30: a frame's operations hold at most one ClearLines, none of them after
\* a scrollback write; when the static phase cleared the status, the status
\* phase clears nothing.
C30_OneErase ==
    Interactive =>
       /\ Len(ClearOps) <= 1
       /\ \A i, j \in DOMAIN ops :
             (ops[i].type = "stdout" /\ ops[i].scrollback /\ ops[j].type = "clear")
             => j < i
       /\ (NormalPath /\ ~Blank(frame.staticOutput) /\ shown.prior.hasStatus) =>
             /\ ops[2].type = "clear"
             /\ \A j \in 3..Len(ops) : ops[j].type # "clear"

\* an increment and a new status under a shown status: one clear, written
\* before the increment
C30_Witness ==
    /\ NormalPath
    /\ ~Blank(frame.staticOutput)
    /\ shown.prior.hasStatus
    /\ frame.dynamicOutput # shown.prior.status
    /\ OpTypes(ops) = <<"synchronizedUpdateStart", "clear", "stdout", "stdout",
                     "stdout", "synchronizedUpdateEnd">>

\* -------------------------------------------------------- SessionManager
\* the blocks of the session files as parseFileTail gives them, with the
\* names of their files
ParsedOf(i) ==
    DisplayBlocks(TailBlocks(sm.disk[SessionPaths[i]], SessionPaths[i]),
                  "project-1", SessionNames[i], SessionPaths[i])
AllParsed ==
    IF Len(sm.sessionFiles) = 1 THEN ParsedOf(1) ELSE ParsedOf(1) \o ParsedOf(2)
InitialEvents ==
    SelectSeq(sm.log, LAMBDA e : e.kind = "messages" /\ e.event.source = "initial")
Processed(i) ==
    sm.init.pc = "done" \/ (sm.init.pc = "parseFileTail" /\ i < sm.init.i)
InitializeErrors(path) ==
    SelectSeq(sm.log, LAMBDA e : /\ e.kind = "error"
                                 /\ e.event.filePath = path
                                 /\ e.watchers = 0)
Range(s) == {s[k] : k \in DOMAIN s}
Min(a, b) == IF a < b THEN a ELSE b

\* C23: initialize emits one event of source 'initial' when some block was
\* parsed and none otherwise; its messages are the MAX_BLOCKS_INITAL_RENDER
\* most recent parsed blocks in ascending timestamp order, each with the
\* names and path of its file; every listener registered gets it once, and
\* the watcher is created only afterwards.
C23_InitialLoad ==
    /\ Len(InitialEvents) <= 1
    /\ Len(InitialEvents) = 1 <=> (sm.init.pc = "done" /\ AllParsed # <<>>)
    /\ sm.created = IF sm.init.pc = "done" THEN 1 ELSE 0
    /\ \A n \in DOMAIN InitialEvents :
          LET e == InitialEvents[n]
              messages == e.event.messages
              emitted == Range(messages)
              parsed == Range(AllParsed)
          IN  /\ \A k \in 1..(Len(messages) - 1) :
                    messages[k].timestamp <= messages[k + 1].timestamp
              /\ Len(messages) = Min(Len(AllParsed), MAX_BLOCKS_INITAL_RENDER)
              /\ Cardinality(emitted) = Len(messages)
              /\ emitted \subseteq parsed
              /\ \A d \in parsed \ emitted : \A m \in emitted :
                    d.timestamp <= m.timestamp
              /\ \A cb \in MsgCallbacks :
                    e.invoked[cb] = IF cb \in e.listeners THEN 1 ELSE 0
              /\ e.watchers = 0

\* two sessions with 203 blocks: the 200 most recent are delivered, the
\* oldest of them from the second file, and the watcher exists
C23_Witness ==
    /\ sm.init.pc = "done"
    /\ Len(AllParsed) = MAX_BLOCKS_INITAL_RENDER + 3
    /\ Len(InitialEvents) = 1
    /\ Len(InitialEvents[1].event.messages) = MAX_BLOCKS_INITAL_RENDER
    /\ InitialEvents[1].event.messages[1].sessionPath = "b.jsonl"
    /\ InitialEvents[1].event.messages[1].timestamp = 3
    /\ InitialEvents[1].invoked["m1"] = 1
    /\ sm.watcher = 1

\* C24: a session file whose parse fails during initialize gives one
\* parse-error event with its path and recoverable = true to every error
\* listener; initialize goes on to its end, emits the blocks of the other
\* sessions and starts watching.
C24_ErrorIsolation ==
    /\ \A i \in DOMAIN sm.sessionFiles :
          LET path == SessionPaths[i]
              errors == InitializeErrors(path)
          IN  IF Processed(i) /\ sm.disk[path] = "unreadable"
              THEN /\ Len(errors) = 1
                   /\ errors[1].event = [type |-> "parse-error", filePath |-> path,
                                         recoverable |-> TRUE]
                   /\ \A cb \in ErrCallbacks :
                         errors[1].invoked[cb] =
                            IF cb \in errors[1].listeners THEN 1 ELSE 0
              ELSE errors = <<>>
    /\ (sm.init.pc = "done" /\ \E i \in DOMAIN sm.sessionFiles :
                                   sm.disk[SessionPaths[i]] = "unreadable") =>
          /\ sm.created = 1
          /\ Len(InitialEvents) = IF AllParsed = <<>> THEN 0 ELSE 1
          /\ \A n \in DOMAIN InitialEvents :
                /\ Len(InitialEvents[n].event.messages) =
                      Min(Len(AllParsed), MAX_BLOCKS_INITAL_RENDER)
                /\ Len(AllParsed) <= MAX_BLOCKS_INITAL_RENDER =>
                      Range(AllParsed) = Range(InitialEvents[n].event.messages)

\* the second of two sessions fails: both error listeners get the event, the
\* first session's two blocks are emitted and the watcher exists
C24_Witness ==
    /\ sm.init.pc = "done"
    /\ Len(sm.sessionFiles) = 2
    /\ sm.disk["a.jsonl"] = "pair" /\ sm.disk["b.jsonl"] = "unreadable"
    /\ Len(InitializeErrors("b.jsonl")) = 1
    /\ InitializeErrors("b.jsonl")[1].invoked["e1"] = 1
    /\ InitializeErrors("b.jsonl")[1].invoked["e2"] = 1
    /\ Len(InitialEvents) = 1
    /\ Len(InitialEvents[1].event.messages) = 2
    /\ sm.watcher = 1

\* C25: cleanup never rejects; once a cleanup has resolved the manager holds
\* no watcher, no listener and no session entry, and no listener is invoked
\* any more.
C25_Cleanup ==
    /\ sm.cl.rejected = 0
    /\ (sm.cl.resolved > 0 /\ sm.cl.pc = "idle") =>
          /\ sm.watcher = 0
          /\ sm.newMessagesListeners = {}
          /\ sm.errorListeners = {}
          /\ \A p \in AllPaths : sm.sessionFilesMap[p] = "absent"
    /\ \A n \in DOMAIN sm.log :
          sm.log[n].cleaned =>
             \A cb \in MsgCallbacks \cup ErrCallbacks : sm.log[n].invoked[cb] = 0
    /\ \A n \in DOMAIN sm.last :
          sm.last[n].cleaned =>
             \A cb \in MsgCallbacks \cup ErrCallbacks : sm.last[n].invoked[cb] = 0

\* ----------------------------------------------------------- the parser
\* the blocks of the lines from..to of the session file
LineBlocks(from, to) == [k \in 1..(to - from + 1) |-> Digit(from + k - 1)]

\* C26: a parseNewLines call on the session file returns the blocks of the
\* lines appended since the previous call on the file ended, none when
\* nothing was appended; after parseFileTail the recorded position is the end
\* of the file.
C26_IncrementalParsing ==
    /\ (fp.call.fn = "parseNewLines" /\ fp.call.file = SessionFileKey) =>
          fp.call.blocks = LineBlocks(fp.call.seenBefore + 1, fp.call.lines)
    /\ (fp.call.fn = "parseFileTail" /\ fp.call.file = SessionFileKey) =>
          fp.call.position = [undefined |-> FALSE, value |-> fp.call.size]

\* -------------------------------------------------------- SessionWatcher
\* the calls of a callback of the manager made for event n
CallsFor(n, cb) ==
    SelectSeq(sw.calls, LAMBDA c : c.ev = n /\ c.cb = cb)
Queued(n) ==
    \/ \E k \in DOMAIN sw.queue : sw.queue[k].ev = n
    \/ (sw.running # NoTask /\ sw.running.ev = n)

\* C31: a handler of the manager for a later file event starts only when
\* every handler started for an earlier event has finished all its work.
C31_SerialisedHandling ==
    \A k \in DOMAIN sw.calls : sw.calls[k].unfinished = 0

\* C32: onChange is called only for a change of a .jsonl path that was
\* watched when the event came, once; onNewSession only for an added .jsonl
\* path that was not watched, once, and only by a watcher built for more
\* than one session; a change of a watched path, a path that addFile
\* registered included, is queued or has its onChange call; when close()
\* has returned the queue is empty, no task runs and no file is watched.
C32_WatcherFiltering ==
    /\ \A n \in DOMAIN sw.events :
          LET e == sw.events[n]
              changes == CallsFor(n, "onChange")
              sessions == CallsFor(n, "onNewSession")
          IN  /\ Len(changes) <= 1 /\ Len(sessions) <= 1
              /\ Len(changes) = 1 =>
                    /\ e.kind = "change" /\ endsWithJsonl(e.path) /\ e.watched
                    /\ changes[1].path = e.path
              /\ Len(sessions) = 1 =>
                    /\ e.kind = "add" /\ endsWithJsonl(e.path) /\ ~e.watched
                    /\ sessions[1].path = e.path
                    /\ Cardinality(sw.initialFiles) > 1
              /\ (e.kind = "change" /\ endsWithJsonl(e.path) /\ e.watched) =>
                    (Len(changes) = 1) # Queued(n)
              /\ ~(e.kind = "change" /\ endsWithJsonl(e.path) /\ e.watched) =>
                    Len(changes) = 0
    /\ \A k \in DOMAIN sw.calls : sw.calls[k].ev \in DOMAIN sw.events
    /\ sw.close = "closed" =>
          sw.queue = <<>> /\ sw.running = NoTask /\ sw.watchedFiles = {}

C32_Witness ==
    /\ sw.close = "closed"
    /\ \E k \in DOMAIN sw.calls :
          /\ sw.calls[k].cb = "onNewSession"
          /\ sw.calls[k].path = <<"c", ".jsonl">>
    /\ \E k \in DOMAIN sw.calls :
          /\ sw.calls[k].cb = "onChange"
          /\ sw.calls[k].path \in sw.added
    /\ \E n \in DOMAIN sw.events :
          sw.events[n].path = <<"notes", ".txt">>


\* --------------------------------------------------------- the LRU cache
KeysOf(cache) == {cache[i].key : i \in DOMAIN cache}
\* the keys the last operation evicted
Evicted == (KeysOf(lru.before) \cup {lru.key}) \ KeysOf(lru.cache)

\* C33: the cache never holds more than POSITION_CACHE_SIZE entries; set
\* evicts only when the cache was full and the key was new, then exactly one
\* key, which is not the key set and which no other key of the cache was
\* used (found by get or written by set) earlier than; get evicts nothing.
C33_BoundedLru ==
    /\ Len(lru.cache) <= POSITION_CACHE_SIZE
    /\ Cardinality(KeysOf(lru.cache)) = Len(lru.cache)
    /\ lru.op = "set" =>
          /\ lru.key \in KeysOf(lru.cache)
          /\ Evicted # {} <=>
                (Len(lru.before) = POSITION_CACHE_SIZE
                   /\ lru.key \notin KeysOf(lru.before))
          /\ Cardinality(Evicted) <= 1
          /\ \A e \in Evicted : \A k \in KeysOf(lru.before) :
                lru.usedBefore[e] <= lru.usedBefore[k]
    /\ lru.op = "get" => KeysOf(lru.cache) = KeysOf(lru.before)

\* a set evicted key 2 because key 1 had been read since it was written
C33_Witness ==
    /\ lru.op = "set"
    /\ Evicted = {2}
    /\ 1 \in KeysOf(lru.cache)
    /\ lru.usedBefore[1] > lru.usedBefore[POSITION_CACHE_SIZE]
    /\ Len(lru.cache) = POSITION_CACHE_SIZE


\* --------------------------------------------------------------- the App
StageMoves ==
    { <<"loading", "select-project">>, <<"loading", "error">>,
      <<"select-project", "select-conversation">>, <<"select-project", "error">>,
      <<"select-conversation", "watching">>,
      <<"select-conversation", "select-project">>,
      <<"watching", "select-conversation">> }

\* C34: the stage changes only along the moves of the navigation state
\* machine; the navigation stack holds 0 frames in select-project, 1 in
\* select-conversation and 2 in watching; a back step shows again exactly
\* what was shown when the forward selection was made.
C34_Navigation ==
    /\ app.from.stage # app.state.stage =>
          <<app.from.stage, app.state.stage>> \in StageMoves
    /\ app.state.stage = "select-project" => Len(app.navigationStack) = 0
    /\ app.state.stage = "select-conversation" => Len(app.navigationStack) = 1
    /\ app.state.stage = "watching" => Len(app.navigationStack) = 2
    /\ app.op = "back-to-projects" => app.state = app.left.projects
    /\ app.op = "back-to-conversations" => app.state = app.left.conversations


\* ------------------------------------------------------- the shown status
\* C35: after every render call on an interactive engine the status recorded
\* as shown is the status of the call's frame followed by "\n" (an empty
\* status that was never written may be recorded as nothing shown), so that
\* no status that is not empty is left off the terminal.
C35_ShownStatusTracksFrame ==
    (Interactive /\ nCalls > 0) =>
       \/ state.previousDynamicOutput = frame.dynamicOutput \o <<NL>>
       \/ (frame.dynamicOutput = <<>> /\ state.previousDynamicOutput = <<>>)


\* --------------------------------------------------- service generations
\* C36: while the view is open the cleanup of an earlier generation leaves
\* the store and the logger of the latest generation uncleared, and once no
\* cleanup is pending the three refs hold the latest generation's instances.
C36_GenerationsIsolated ==
    (view.open /\ view.gens > 1) =>
       /\ ~view.cleared[view.gens]
       /\ view.cleaning = {} =>
             /\ view.messageStoreRef = view.gens
             /\ view.sessionManagerRef = view.gens
             /\ view.renderLoggerRef = view.gens


\* ------------------------------------------------- redraws after resizes
\* the dimensions of the last frame the view's logger processed
DrawnDims ==
    LET f == view.loggers[view.loggerProp].prevFrame
    IN  <<f.columns, f.rows>>

\* C37: on an interactive engine, once the hooks have run for every change
\* of the terminal's size, no more full redraws were made than the size
\* changed and the last was made for the size the terminal has now.
C37_OneRedrawPerChange ==
    (view.open /\ Interactive /\ view.loggerProp # 0 /\ ~view.needsRender) =>
       /\ view.clears <= view.resizes
       /\ DrawnDims = <<view.columns, view.rows>>


\* ------------------------------------------------------ partial writes
\* the entry lines of the session file that have their newline
WrittenLines == IF pw.rest = <<>> THEN pw.lines ELSE pw.lines - 1

\* C38: once parseNewLines has run after the last write, the block of every
\* entry line written with its newline has been returned by some call, and
\* the position a call records is never past the last newline of the file
\* it read.
C38_NoLossToPartialWrites ==
    (pw.calls > 0) =>
       /\ pw.fresh => \A k \in 1..WrittenLines : Digit(k) \in pw.returned
       /\ pw.position <= pw.complete

====
